---- MODULE Spec2Model ----
(***************************************************************************)
(* Storage discovery and metadata deduplication: the scheduled scan        *)
(* (airflow/dags/azure_blob_discovery_dag.py), the manual-trigger scan     *)
(* (backend/app/api/routes/discovery.py), the dedup decision               *)
(* (airflow/utils/deduplication.py), the metadata extractor and the        *)
(* approval service (backend/app/services/discovery_service.py), as a      *)
(* state machine over the data_discovery table and the blob backend.       *)
(***************************************************************************)
EXTENDS Integers, Sequences, FiniteSets, TLC

VARIABLES
    config,     \* the configuration read at start-up: the storage accounts, and where the backend's blobs live
    blobs,      \* the blob backend: full_path -> [ver, hdr] (metadata version, header content)
    catalog,    \* the data_discovery table: a sequence of rows, row id = index (AUTO_INCREMENT)
    clock,      \* the time NOW() and datetime.utcnow() give; it moves on when a pass starts
    budget,     \* scan passes each scan process may still start
    scan,       \* per scan process: position in the nested loops and the locals of the loop body
    req,        \* per approval request: position in approve_discovery / reject_discovery
    edits,      \* number of backend modifications so far
    call        \* one call of a utility function: its name, arguments, position and result

vars == <<config, blobs, catalog, clock, budget, scan, req, edits, call>>

(***************************************************************************)
(* Bounds of the model.                                                    *)
(***************************************************************************)
MaxEdits == 1       \* backend modifications in one behaviour
MaxPasses == 2      \* passes of the scheduled scan run one after the other
MaxRequests == 2    \* approve / reject requests in one behaviour
MaxSegments == 2    \* "/"-separated segments after the host of a locator
MaxEtagLen == 2     \* characters of a reported etag
MaxColumns == 2     \* columns of a schema descriptor
MaxRuns == 2        \* runs of equal values in a list of sample values

\* Sample sizes
SampleCap == 100
TailBytes == 8192
DagHeadBytes == 1024
ManualHeadBytes == 2048

(***************************************************************************)
(* Configuration: AZURE_STORAGE_ACCOUNTS, and the blobs the backend holds. *)
(* A blob's name is blob.name.split("/")[-1], kept as its "."-separated    *)
(* segments so that the extension can be taken off it.                     *)
(***************************************************************************)
\* One account, one container scanned from its root, one blob.
SmallConfig ==
    [ accounts |-> << [name |-> "acct1", containers |-> <<"c1">>, folders |-> <<"">>] >>,
      layout |-> << [full_path |-> "a.csv", name |-> <<"a", "csv">>,
                     account |-> "acct1", container |-> "c1", folder |-> ""] >> ]

\* Two accounts, four (container, folder) listings: two blobs in the first listing,
\* then a later folder, a later account and a later container with one more blob.
WideConfig ==
    [ accounts |-> << [name |-> "acct1", containers |-> <<"c1">>, folders |-> <<"in", "out">>],
                      [name |-> "acct2", containers |-> <<"c2", "c3">>, folders |-> <<"">>] >>,
      layout |-> << [full_path |-> "in/a.csv", name |-> <<"a", "csv">>,
                     account |-> "acct1", container |-> "c1", folder |-> "in"],
                    [full_path |-> "in/b.PARQUET", name |-> <<"b", "PARQUET">>,
                     account |-> "acct1", container |-> "c1", folder |-> "in"],
                    [full_path |-> "c", name |-> <<"c">>,
                     account |-> "acct2", container |-> "c3", folder |-> ""] >> ]

AZURE_STORAGE_ACCOUNTS == config.accounts
BlobLayout == config.layout
Paths == {BlobLayout[i].full_path : i \in 1..Len(BlobLayout)}

Runs == {"dag1", "dag2"}        \* scheduled DAG runs (max_active_runs allows several)
Manual == "manual"              \* the thread started by POST /api/discovery/trigger
ScanProcs == Runs \cup {Manual}
Requests == 1..MaxRequests
Users == {"gov"}

(***************************************************************************)
(* Bytes, digests and JSON text.  A byte string is a sequence of integers  *)
(* whose first element tells what it spells; SHAKE-128 is taken as         *)
(* collision-free, so a digest is its input under a tag.                   *)
(***************************************************************************)
EmptyBytes == <<>>

\* hashlib.shake_128(b).hexdigest(16)
Shake128(bytes) == <<128>> \o bytes

generate_file_hash(file_content) == Shake128(file_content)

\* f"{etag}_{file_size}_{last_modified.isoformat() if last_modified else ''}".encode()
CompositeString(etag, file_size, last_modified) == <<1, etag, file_size, last_modified>>

\* The bytes a sample read returns: which end, how many bytes at most, what they hold.
SampleBytes(fromEnd, max_bytes, hdr) == <<2, IF fromEnd THEN 1 ELSE 0, max_bytes, hdr>>

\* Python's {} and a schema dict {"columns": [...], "num_columns": n}
EmptyDict == [is_dict |-> TRUE, has_columns |-> FALSE, columns |-> <<>>, num_columns |-> 0]
SchemaDict(cols) == [is_dict |-> TRUE, has_columns |-> TRUE, columns |-> cols, num_columns |-> Len(cols)]

\* json.dumps(schema_json, sort_keys=True).encode()
JsonDumps(d) == IF d.has_columns THEN <<3, 1, d.num_columns>> \o d.columns ELSE <<3, 0>>

generate_schema_hash(schema_json) == Shake128(JsonDumps(schema_json))

\* "x".strip('"') on the backend's etag: the surrounding quotes go.
StripQuotes(etag) == etag.body

\* str.lower() on the extensions that occur
Lower(s) == CASE s = "PARQUET" -> "parquet" [] s = "CSV" -> "csv" [] s = "JSON" -> "json" [] OTHER -> s

\* name.split(".")[-1].lower() if "." in name else ""
FileExtension(name) == IF Len(name) > 1 THEN Lower(name[Len(name)]) ELSE ""

\* file_extension[1:].lower() if file_extension else "unknown"
FileFormat(name) == IF Len(name) > 1 THEN Lower(name[Len(name)]) ELSE "unknown"

(***************************************************************************)
(* The blob backend.                                                       *)
(***************************************************************************)
Hdrs == {0, 1}          \* header contents a blob may hold; 0 does not parse

\* One entry of AzureBlobClient.list_blobs: the properties of a blob as of the listing.
BlobInfo(b, state) ==
    [ name |-> b.name, full_path |-> b.full_path,
      size |-> state.ver,
      etag |-> [quoted |-> TRUE, body |-> state.ver],
      last_modified |-> state.ver ]

\* name_starts_with=prefix, prefix = folder_path.rstrip("/") + "/" if folder_path else ""
InFolder(b, account, container, folder) ==
    /\ b.account = account
    /\ b.container = container
    /\ (folder = "" \/ b.folder = folder)

RECURSIVE ListFrom(_, _, _, _)
ListFrom(i, account, container, folder) ==
    IF i > Len(BlobLayout) THEN <<>>
    ELSE LET b == BlobLayout[i]
             rest == ListFrom(i + 1, account, container, folder)
         IN  IF InFolder(b, account, container, folder)
             THEN <<BlobInfo(b, blobs[b.full_path])>> \o rest
             ELSE rest

list_blobs(account, container, folder) == ListFrom(1, account, container, folder)

\* get_blob_sample / get_blob_tail: the bytes read, b"" when the read fails.
get_blob_sample(blob_path, max_bytes, ok) ==
    IF ok THEN SampleBytes(FALSE, max_bytes, blobs[blob_path].hdr) ELSE EmptyBytes

get_blob_tail(blob_path, max_bytes, ok) ==
    IF ok THEN SampleBytes(TRUE, max_bytes, blobs[blob_path].hdr) ELSE EmptyBytes

(***************************************************************************)
(* Metadata extraction.                                                    *)
(***************************************************************************)
\* extract_csv_schema / extract_json_schema / extract_parquet_schema: the columns the
\* sample spells, {"columns": [], "num_columns": 0} when it does not parse.
ExtractSchema(file_content) ==
    IF file_content[4] = 0 THEN SchemaDict(<<>>) ELSE SchemaDict(<<file_content[4]>>)

\* NULL of a column, None of a dict entry
Null == 0

\* None of a dict entry that would hold an etag
NoEtag == [quoted |-> FALSE, body |-> Null]

\* hashlib.shake_128(b"").hexdigest(16): the digest of nothing
EmptyDigest == Shake128(EmptyBytes)

\* raised: extract_*_schema or generate_schema_hash raises past the extractor's own
\* handler, and the except branch of extract_file_metadata sets schema_json = {} and
\* schema_hash = hashlib.shake_128(b"").hexdigest(16)
extract_file_metadata(blob_info, file_content, now, raised) ==
    LET file_format == FileFormat(blob_info.name)
        file_hash == generate_file_hash(file_content)
        known == file_format \in {"parquet", "csv", "json"} /\ file_content # EmptyBytes
        schema_json == IF known /\ ~raised THEN ExtractSchema(file_content) ELSE EmptyDict
        schema_hash == IF known
                       THEN IF raised THEN EmptyDigest ELSE generate_schema_hash(schema_json)
                       ELSE Shake128(JsonDumps(EmptyDict))
    IN  [ file_metadata |->
            [ name |-> blob_info.name, format |-> file_format,
              size_bytes |-> blob_info.size,
              hash_algorithm |-> "shake128", hash_value |-> file_hash,
              computed_at |-> now, last_modified |-> blob_info.last_modified ],
          schema_json |-> schema_json,
          schema_hash |-> schema_hash,
          file_hash |-> file_hash,
          storage_metadata |->
            [ etag |-> [quoted |-> FALSE, body |-> StripQuotes(blob_info.etag)],
              last_modified |-> blob_info.last_modified ] ]

\* The "no sample" branch of the scheduled scan.
MinimalMetadata(blob_info, file_hash, now) ==
    [ file_metadata |->
        [ name |-> blob_info.name, format |-> FileFormat(blob_info.name),
          size_bytes |-> blob_info.size,
          hash_algorithm |-> "sha256_etag_composite", hash_value |-> file_hash,
          computed_at |-> now, last_modified |-> blob_info.last_modified ],
      schema_json |-> EmptyDict,
      schema_hash |-> generate_schema_hash(EmptyDict),
      file_hash |-> file_hash,
      storage_metadata |->
        [ etag |-> [quoted |-> FALSE, body |-> StripQuotes(blob_info.etag)],
          last_modified |-> blob_info.last_modified ] ]

\* The "no sample" branch of the manual-trigger scan: "format": file_extension and
\* "algorithm": "shake128_etag_composite"
ManualMinimalMetadata(blob_info, file_hash, now) ==
    LET m == MinimalMetadata(blob_info, file_hash, now)
    IN  [m EXCEPT !.file_metadata.format = FileExtension(blob_info.name),
                  !.file_metadata.hash_algorithm = "shake128_etag_composite"]

NoMeta ==
    [ file_metadata |->
        [ name |-> <<>>, format |-> "", size_bytes |-> 0, hash_algorithm |-> "",
          hash_value |-> <<>>, computed_at |-> 0, last_modified |-> 0 ],
      schema_json |-> EmptyDict, schema_hash |-> <<>>, file_hash |-> <<>>,
      storage_metadata |-> [etag |-> NoEtag, last_modified |-> 0] ]

(***************************************************************************)
(* The data_discovery table.                                               *)
(***************************************************************************)
NullWorkflow == [is_null |-> TRUE, approval |-> <<>>, rejection |-> <<>>, history |-> <<>>]

\* get_storage_location_json
get_storage_location_json(account_name, container, blob_path) ==
    [type |-> "azure_blob", path |-> blob_path, account_name |-> account_name, container |-> container]

\* The columns no statement writes and the SELECTs read: storage_type,
\* storage_identifier, storage_path come from storage_location, file_hash from
\* file_metadata ($.hash.value).
KeyOf(row) == <<row.storage_location.type, row.storage_location.account_name, row.storage_location.path>>
FileHashColumn(row) == row.file_metadata.hash_value

\* A table without the unique index: no INSERT is refused.
UniqueKeyNotEnforced(table, key) == FALSE

\* The table holds at most one row per (storage_type, storage_identifier, storage_path).
UniqueKeyHeld(table, key) == \E i \in 1..Len(table) : KeyOf(table[i]) = key

NoRecord == [id |-> 0, file_hash |-> <<>>, schema_hash |-> <<>>]

\* SELECT id, file_hash, schema_hash ... WHERE storage_type = %s AND
\* storage_identifier = %s AND storage_path = %s LIMIT 1
check_file_exists(storage_type, storage_identifier, storage_path) ==
    LET hits == {i \in 1..Len(catalog) :
                    KeyOf(catalog[i]) = <<storage_type, storage_identifier, storage_path>>}
    IN  IF hits = {} THEN NoRecord
        ELSE LET i == CHOOSE j \in hits : \A k \in hits : j <= k
             IN  [id |-> i, file_hash |-> FileHashColumn(catalog[i]), schema_hash |-> catalog[i].schema_hash]

\* compare_hashes reading a key the row does not have: None != new_file_hash
compare_hashes_missing_key(existing_record, new_file_hash, new_schema_hash) ==
    [ file_changed |-> TRUE,
      schema_changed |-> existing_record.schema_hash # new_schema_hash ]

compare_hashes(existing_record, new_file_hash, new_schema_hash) ==
    [ file_changed |-> existing_record.file_hash # new_file_hash,
      schema_changed |-> existing_record.schema_hash # new_schema_hash ]

should_update_or_insert(existing_record, new_file_hash, new_schema_hash) ==
    IF existing_record.id = 0 THEN TRUE
    ELSE LET c == compare_hashes(existing_record, new_file_hash, new_schema_hash)
         IN  c.file_changed \/ c.schema_changed

DiscoveryInfo(p, s, account) ==
    [ batch |-> s.batch, source |-> "airflow_dag", run_id |-> p,
      container |-> account.containers[s.ci], folder |-> account.folders[s.fi] ]

\* INSERT INTO data_discovery (...) VALUES (..., NOW(), 'pending', 'pending_review', TRUE, TRUE, ...)
InsertRow(storage_location, metadata, discovery_info, folder_path, now) ==
    [ storage_location |-> storage_location,
      file_metadata |-> metadata.file_metadata,
      schema_json |-> metadata.schema_json,
      schema_hash |-> metadata.schema_hash,
      discovered_at |-> now,
      status |-> "pending",
      approval_status |-> "pending_review",
      is_visible |-> TRUE,
      is_active |-> TRUE,
      environment |-> "prod",
      env_type |-> "production",
      data_source_type |-> "credit_card",
      folder_path |-> folder_path,
      storage_metadata |-> metadata.storage_metadata,
      discovery_info |-> discovery_info,
      created_by |-> "airflow",
      last_checked_at |-> Null,
      updated_at |-> Null,
      approval_workflow |-> NullWorkflow ]

\* An UPDATE that also writes the INSERT's status columns
UpdateRowResetsStatus(row, metadata, discovery_info, now) ==
    [ row EXCEPT !.file_metadata = metadata.file_metadata,
                 !.schema_json = metadata.schema_json,
                 !.schema_hash = metadata.schema_hash,
                 !.storage_metadata = metadata.storage_metadata,
                 !.discovery_info = discovery_info,
                 !.status = "pending",
                 !.approval_status = "pending_review",
                 !.is_visible = TRUE,
                 !.last_checked_at = now,
                 !.updated_at = now ]

\* UPDATE data_discovery SET file_metadata, schema_json, schema_hash, storage_metadata,
\* discovery_info, last_checked_at = NOW(), updated_at = NOW() WHERE id = %s
UpdateRow(row, metadata, discovery_info, now) ==
    [ row EXCEPT !.file_metadata = metadata.file_metadata,
                 !.schema_json = metadata.schema_json,
                 !.schema_hash = metadata.schema_hash,
                 !.storage_metadata = metadata.storage_metadata,
                 !.discovery_info = discovery_info,
                 !.last_checked_at = now,
                 !.updated_at = now ]

(***************************************************************************)
(* The scan: for account / for container / for folder / for blob, each     *)
(* level inside its own try ... except: continue.                          *)
(***************************************************************************)
IdleScan ==
    [ pc |-> "idle", ai |-> 0, ci |-> 0, fi |-> 0, listing |-> <<>>, oi |-> 0,
      existing |-> NoRecord, file_hash |-> <<>>, meta |-> NoMeta, batch |-> 0,
      found |-> 0,          \* len(all_new_discoveries)
      log |-> "",           \* what the loop body last reported in this pass: "skipping",
                            \* "updated", "inserted", "error inserting", or "error"
      tried |-> {},         \* accounts whose iteration was entered in this pass
      opened |-> {},        \* accounts whose client was built in this pass
      listed |-> {},        \* <<ai, ci, fi>> whose listing was asked for in this pass
      returned |-> {},      \* <<ai, ci, fi, full_path>> a listing of this pass returned
      attempted |-> {} ]    \* <<ai, ci, fi, full_path>> whose loop body was entered

Unit(s) == <<s.ai, s.ci, s.fi>>

\* The end of one iteration of "for folder_path in folders"
NextFolder(s) ==
    LET account == AZURE_STORAGE_ACCOUNTS[s.ai]
        cleared == [s EXCEPT !.listing = <<>>, !.oi = 0, !.existing = NoRecord,
                             !.file_hash = <<>>, !.meta = NoMeta]
    IN  IF s.fi < Len(account.folders)
        THEN [cleared EXCEPT !.pc = "list", !.fi = s.fi + 1]
        ELSE IF s.ci < Len(account.containers)
        THEN [cleared EXCEPT !.pc = "list", !.ci = s.ci + 1, !.fi = 1]
        ELSE [cleared EXCEPT !.pc = "account", !.ai = s.ai + 1, !.ci = 0, !.fi = 0]

\* The end of one iteration of "for blob_info in blobs" (also: continue)
NextBlob(s) ==
    IF s.oi < Len(s.listing)
    THEN [s EXCEPT !.pc = "examine", !.oi = s.oi + 1, !.existing = NoRecord,
                   !.file_hash = <<>>, !.meta = NoMeta]
    ELSE NextFolder(s)

\* A loop body without its own handler: the exception reaches the folder's handler
BlobErrorLeavesListing(s) == NextFolder([s EXCEPT !.log = "error"])

\* except Exception as e: logger.error(...); continue   (the per-blob handler)
BlobError(s) == NextBlob([s EXCEPT !.log = "error"])

\* discover_azure_blobs is called / run_discovery starts
BeginPass(p) ==
    /\ scan[p].pc \in {"idle", "done"}
    /\ budget[p] > 0
    /\ budget' = [budget EXCEPT ![p] = @ - 1]
    /\ clock' = clock + 1
    /\ scan' = [scan EXCEPT ![p] = [IdleScan EXCEPT !.pc = "account", !.ai = 1, !.batch = clock']]
    /\ UNCHANGED <<config, blobs, catalog, req, edits, call>>

\* for storage_config in AZURE_STORAGE_ACCOUNTS: try: blob_client = AzureBlobClient(...)
OpenAccount(p) ==
    LET s == scan[p] IN
    /\ s.pc = "account"
    /\ s.ai <= Len(AZURE_STORAGE_ACCOUNTS)
    /\ \/ \* the client is built; an empty container list leaves nothing to loop over
          scan' = [scan EXCEPT ![p] =
                IF Len(AZURE_STORAGE_ACCOUNTS[s.ai].containers) = 0
                THEN [s EXCEPT !.ai = s.ai + 1, !.tried = @ \cup {s.ai}, !.opened = @ \cup {s.ai}]
                ELSE [s EXCEPT !.pc = "list", !.ci = 1, !.fi = 1,
                               !.tried = @ \cup {s.ai}, !.opened = @ \cup {s.ai}]]
       \/ \* the constructor raises: the account's handler logs and continues
          scan' = [scan EXCEPT ![p] = [s EXCEPT !.ai = s.ai + 1, !.tried = @ \cup {s.ai}]]
    /\ UNCHANGED <<config, blobs, catalog, clock, budget, req, edits, call>>

\* the account loop is exhausted: return len(all_new_discoveries)
FinishPass(p) ==
    LET s == scan[p] IN
    /\ s.pc = "account"
    /\ s.ai > Len(AZURE_STORAGE_ACCOUNTS)
    /\ scan' = [scan EXCEPT ![p] = [s EXCEPT !.pc = "done"]]
    /\ UNCHANGED <<config, blobs, catalog, clock, budget, req, edits, call>>

\* try: blobs = blob_client.list_blobs(...)
ListBlobs(p) ==
    LET s == scan[p]
        account == AZURE_STORAGE_ACCOUNTS[s.ai]
        found == list_blobs(account.name, account.containers[s.ci], account.folders[s.fi])
        asked == [s EXCEPT !.listed = @ \cup {Unit(s)}]
    IN
    /\ s.pc = "list"
    /\ \/ scan' = [scan EXCEPT ![p] =
                IF found = <<>> THEN NextFolder(asked)
                ELSE [asked EXCEPT !.pc = "examine", !.listing = found, !.oi = 1,
                                   !.returned = @ \cup {Unit(s) \o <<found[i].full_path>> : i \in 1..Len(found)}]]
       \/ \* list_blobs raises: the folder's handler logs and continues
          scan' = [scan EXCEPT ![p] = NextFolder(asked)]
    /\ UNCHANGED <<config, blobs, catalog, clock, budget, req, edits, call>>

\* The loop body up to the decision: the existence check, the composite hash, the
\* sample and the metadata.
Examine(p) ==
    LET s == scan[p]
        account == AZURE_STORAGE_ACCOUNTS[s.ai]
        blob_info == s.listing[s.oi]
        blob_path == blob_info.full_path
        entered == [s EXCEPT !.attempted = @ \cup {Unit(s) \o <<blob_path>>}]
        file_size == blob_info.size
        etag == StripQuotes(blob_info.etag)
        file_hash == generate_file_hash(CompositeString(etag, file_size, blob_info.last_modified))
        file_extension == FileExtension(blob_info.name)
        head_bytes == IF p = Manual THEN ManualHeadBytes ELSE DagHeadBytes
    IN
    /\ s.pc = "examine"
    /\ \/ \E ok \in BOOLEAN, raised \in BOOLEAN :
            LET file_sample == IF file_extension = "parquet"
                               THEN get_blob_tail(blob_path, TailBytes, ok)
                               ELSE get_blob_sample(blob_path, head_bytes, ok)
                metadata == IF file_sample # EmptyBytes
                            THEN extract_file_metadata(blob_info, file_sample, clock, raised)
                            ELSE IF p = Manual
                            THEN ManualMinimalMetadata(blob_info, file_hash, clock)
                            ELSE MinimalMetadata(blob_info, file_hash, clock)
            IN  scan' = [scan EXCEPT ![p] =
                    [entered EXCEPT !.pc = "decide",
                                    !.existing = check_file_exists("azure_blob", account.name, blob_path),
                                    !.file_hash = file_hash,
                                    !.meta = metadata]]
       \/ \* check_file_exists raises
          scan' = [scan EXCEPT ![p] = BlobError(entered)]
    /\ UNCHANGED <<config, blobs, catalog, clock, budget, req, edits, call>>

\* if not should_update_or_insert(existing_record, file_hash, schema_hash):
\*     logger.info("Skipping ..."); continue
Decide(p) ==
    LET s == scan[p] IN
    /\ p \in Runs
    /\ s.pc = "decide"
    /\ scan' = [scan EXCEPT ![p] =
            IF ~should_update_or_insert(s.existing, s.file_hash, s.meta.schema_hash)
            THEN NextBlob([s EXCEPT !.log = "skipping"])
            ELSE [s EXCEPT !.pc = "write"]]
    /\ UNCHANGED <<config, blobs, catalog, clock, budget, req, edits, call>>

\* "a, b = v" raises TypeError unless v is iterable; a bool is not
CanUnpackPair(v) == v \notin BOOLEAN

\* should_update, schema_changed = should_update_or_insert(existing_record, file_hash, schema_hash)
ManualDecide(p) ==
    LET s == scan[p]
        result == should_update_or_insert(s.existing, s.file_hash, s.meta.schema_hash)
    IN
    /\ p = Manual
    /\ s.pc = "decide"
    /\ scan' = [scan EXCEPT ![p] =
            IF CanUnpackPair(result) THEN [s EXCEPT !.pc = "write"] ELSE BlobError(s)]
    /\ UNCHANGED <<config, blobs, catalog, clock, budget, req, edits, call>>

\* An except branch that does not roll back on a connection that commits by itself
rollback_missing(committed, uncommitted) == uncommitted

\* except Exception as e: conn.rollback(): the table is what it was at the last commit
rollback(committed, uncommitted) == committed

\* The UPDATE or the INSERT of the loop body, on the table as the transaction sees it.
\* The INSERT is refused when the key is already there.
Statement(p, s, table) ==
    LET account == AZURE_STORAGE_ACCOUNTS[s.ai]
        blob_path == s.listing[s.oi].full_path
        storage_location == get_storage_location_json(account.name, account.containers[s.ci], blob_path)
        discovery_info == DiscoveryInfo(p, s, account)
    IN  IF s.existing.id # 0
        THEN [table EXCEPT ![s.existing.id] = UpdateRow(@, s.meta, discovery_info, clock)]
        ELSE Append(table, InsertRow(storage_location, s.meta, discovery_info, account.folders[s.fi], clock))

StatementRefused(s, table) ==
    LET account == AZURE_STORAGE_ACCOUNTS[s.ai]
    IN  /\ s.existing.id = 0
        /\ UniqueKeyHeld(table, <<"azure_blob", account.name, s.listing[s.oi].full_path>>)

\* conn = get_db_connection(); try: UPDATE or INSERT; conn.commit();
\* all_new_discoveries.append(...) / except: conn.rollback(); raise
Write(p) ==
    LET s == scan[p] IN
    /\ p \in Runs
    /\ s.pc = "write"
    /\ \/ \* the statement runs and the transaction commits
          /\ ~StatementRefused(s, catalog)
          /\ catalog' = Statement(p, s, catalog)
          /\ scan' = [scan EXCEPT ![p] =
                NextBlob([s EXCEPT !.found = @ + 1,
                                   !.log = IF s.existing.id # 0 THEN "updated" ELSE "inserted"])]
       \/ \* the connection or the statement raises (nothing was executed), or the
          \* commit raises (the statement was): rollback, then the per-blob handler
          /\ \E executed \in BOOLEAN :
                /\ executed => ~StatementRefused(s, catalog)
                /\ catalog' = rollback(catalog, IF executed THEN Statement(p, s, catalog) ELSE catalog)
          /\ scan' = [scan EXCEPT ![p] = [BlobError(s) EXCEPT !.log = "error inserting"]]
    /\ UNCHANGED <<config, blobs, clock, budget, req, edits, call>>

(***************************************************************************)
(* The environment: a blob is rewritten.                                   *)
(***************************************************************************)
ModifyBlob(path) ==
    /\ edits < MaxEdits
    /\ edits' = edits + 1
    /\ \E h \in Hdrs : blobs' = [blobs EXCEPT ![path] = [ver |-> @.ver + 1, hdr |-> h]]
    /\ UNCHANGED <<config, catalog, clock, budget, scan, req, call>>

(***************************************************************************)
(* The approval service.                                                   *)
(***************************************************************************)
IdleReq == [pc |-> "idle", kind |-> "", id |-> 0, by |-> "", workflow |-> NullWorkflow, exc |-> "none", code |-> 0]

\* The route's answer to what the service call did: except ValueError -> 404,
\* except Exception -> 500, otherwise 200.
RouteStatusNoValueError(exc) ==
    IF exc = "none" THEN 200 ELSE 500

RouteStatus(exc) ==
    CASE exc = "none" -> 200
      [] exc = "ValueError" -> 404
      [] OTHER -> 500

\* if not approved_by or not isinstance(approved_by, str) or not approved_by.strip()
BadRequest(by) == by = ""

BadRequestStatus == 400

\* {"action": ..., "by": ..., "at": ..., "role": role or "data_governor", ...}
HistoryEntry(action, by, now) == [action |-> action, by |-> by, at |-> now, role |-> "data_governor"]

\* An approval that also makes the row visible again
ApproveRowRestoresVisibility(row, existing_approval_workflow, approved_by, now) ==
    LET entry == HistoryEntry("approved", approved_by, now)
    IN  [ row EXCEPT !.status = "approved",
                     !.approval_status = "approved",
                     !.is_visible = TRUE,
                     !.approval_workflow =
                        [ is_null |-> FALSE, approval |-> <<entry>>, rejection |-> <<>>,
                          history |-> Append(existing_approval_workflow.history, entry) ],
                     !.updated_at = now ]

\* UPDATE data_discovery SET status = 'approved', approval_status = 'approved',
\* approval_workflow = %s, updated_at = NOW() WHERE id = %s
ApproveRow(row, existing_approval_workflow, approved_by, now) ==
    LET entry == HistoryEntry("approved", approved_by, now)
    IN  [ row EXCEPT !.status = "approved",
                     !.approval_status = "approved",
                     !.approval_workflow =
                        [ is_null |-> FALSE, approval |-> <<entry>>, rejection |-> <<>>,
                          history |-> Append(existing_approval_workflow.history, entry) ],
                     !.updated_at = now ]

\* A rejection that also stamps the scan's last_checked_at
RejectRowStampsChecked(row, existing_approval_workflow, rejected_by, now) ==
    LET entry == HistoryEntry("rejected", rejected_by, now)
    IN  [ row EXCEPT !.status = "rejected",
                     !.approval_status = "rejected",
                     !.is_visible = FALSE,
                     !.approval_workflow =
                        [ is_null |-> FALSE, approval |-> <<>>, rejection |-> <<entry>>,
                          history |-> Append(existing_approval_workflow.history, entry) ],
                     !.last_checked_at = now,
                     !.updated_at = now ]

\* UPDATE data_discovery SET status = 'rejected', approval_status = 'rejected',
\* is_visible = FALSE, approval_workflow = %s, updated_at = NOW() WHERE id = %s
RejectRow(row, existing_approval_workflow, rejected_by, now) ==
    LET entry == HistoryEntry("rejected", rejected_by, now)
    IN  [ row EXCEPT !.status = "rejected",
                     !.approval_status = "rejected",
                     !.is_visible = FALSE,
                     !.approval_workflow =
                        [ is_null |-> FALSE, approval |-> <<>>, rejection |-> <<entry>>,
                          history |-> Append(existing_approval_workflow.history, entry) ],
                     !.updated_at = now ]

\* The columns named in the SET clause of each UPDATE statement
UpdateColumns ==
    { "file_metadata", "schema_json", "schema_hash", "storage_metadata",
      "discovery_info", "last_checked_at", "updated_at" }

ApproveColumns == { "status", "approval_status", "approval_workflow", "updated_at" }

RejectColumns == { "status", "approval_status", "is_visible", "approval_workflow", "updated_at" }

\* The rows the list-visible operation and the summary statistics select:
\* WHERE is_visible = TRUE AND is_active = TRUE
visible_rows(table) == { i \in 1..Len(table) : table[i].is_visible /\ table[i].is_active }

\* SELECT COUNT(*), SUM(CASE WHEN status = ... THEN 1 ELSE 0 END) ... FROM data_discovery
\* WHERE is_visible = TRUE AND is_active = TRUE
get_summary_stats(table) ==
    LET counted(status) == Cardinality({ i \in visible_rows(table) : table[i].status = status })
    IN  [ total_discoveries |-> Cardinality(visible_rows(table)),
          pending_count |-> counted("pending"),
          approved_count |-> counted("approved"),
          rejected_count |-> counted("rejected") ]

\* PUT /<id>/approve, PUT /<id>/reject: the payload is validated, then
\* SELECT * FROM data_discovery WHERE id = %s
ReadForDecision(r) ==
    /\ req[r].pc = "idle"
    /\ \A earlier \in 1..(r - 1) : req[earlier].pc # "idle"   \* numbered as they arrive
    /\ \E kind \in {"approve", "reject"}, id \in 1..(Len(catalog) + 1), by \in Users \cup {""} :
          LET \* an answered request keeps the id it named and its answer
              q == [ pc |-> "done", kind |-> "", id |-> id, by |-> "",
                     workflow |-> NullWorkflow, exc |-> "none", code |-> 0 ]
          IN  IF BadRequest(by)
              THEN \* answered before the id is looked at
                   req' = [req EXCEPT ![r] = [q EXCEPT !.id = 0, !.code = BadRequestStatus]]
              ELSE \/ \* the pool or the SELECT raises
                      req' = [req EXCEPT ![r] =
                                [q EXCEPT !.id = 0, !.exc = "OperationalError",
                                          !.code = RouteStatus("OperationalError")]]
                   \/ req' = [req EXCEPT ![r] =
                                IF id <= Len(catalog)
                                THEN [q EXCEPT !.pc = "fetched", !.kind = kind, !.by = by,
                                               !.workflow = catalog[id].approval_workflow]
                                ELSE \* raise ValueError(f"Discovery {discovery_id} not found")
                                     [q EXCEPT !.exc = "ValueError",
                                               !.code = RouteStatus("ValueError")]]
    /\ UNCHANGED <<config, blobs, catalog, clock, budget, scan, edits, call>>

\* cursor.execute(update_sql, ...); conn.commit(); return get_discovery_by_id(...)
WriteDecision(r) ==
    LET q == req[r]
        \* a request answered with a server error names no record in its answer
        done(exc) == [q EXCEPT !.pc = "done", !.kind = "", !.by = "", !.workflow = NullWorkflow,
                               !.id = IF exc = "none" THEN @ ELSE 0,
                               !.exc = exc, !.code = RouteStatus(exc)]
        written == [catalog EXCEPT ![q.id] =
                        IF q.kind = "approve"
                        THEN ApproveRow(@, q.workflow, q.by, clock)
                        ELSE RejectRow(@, q.workflow, q.by, clock)]
    IN
    /\ q.pc = "fetched"
    /\ \/ /\ catalog' = written
          /\ req' = [req EXCEPT ![r] = done("none")]
       \/ \* the statement or the commit raises: conn.rollback(); the route answers 500
          /\ catalog' = catalog
          /\ req' = [req EXCEPT ![r] = done("OperationalError")]
       \/ \* the read-back after the commit raises: the rollback undoes nothing
          /\ catalog' = written
          /\ req' = [req EXCEPT ![r] = done("OperationalError")]
    /\ UNCHANGED <<config, blobs, clock, budget, scan, edits, call>>

(***************************************************************************)
(* Path resolution (airflow/utils/path_parser.py).  A locator is a         *)
(* sequence of pieces of text; the pieces are chosen so that every         *)
(* substring the parsers look for is a whole piece or lies inside one.     *)
(***************************************************************************)
Drop(path, n) == SubSeq(path, n + 1, Len(path))

StartsWith(path, prefix) ==
    /\ Len(path) >= Len(prefix)
    /\ SubSeq(path, 1, Len(prefix)) = prefix

\* "abfs://" is the pieces "abfs:", "/", "/"
Scheme(name) == <<name, "/", "/">>

\* substring in path, for a substring that lies inside the pieces of `pieces`
Contains(path, pieces) == \E i \in 1..Len(path) : path[i] \in pieces

\* index of the first piece of `pieces` in path, 0 when there is none
Find(path, pieces) ==
    IF Contains(path, pieces)
    THEN CHOOSE i \in 1..Len(path) :
            /\ path[i] \in pieces
            /\ \A j \in 1..(i - 1) : path[j] \notin pieces
    ELSE 0

\* str.lower()
LowerPiece(piece) == IF piece = "STORAGE.GOOGLEAPIS.COM" THEN "storage.googleapis.com" ELSE piece

LowerPath(path) == [i \in 1..Len(path) |-> LowerPiece(path[i])]

\* str.lstrip(chars), str.strip()
RECURSIVE LStrip(_, _)
LStrip(path, pieces) ==
    IF path # <<>> /\ Head(path) \in pieces THEN LStrip(Tail(path), pieces) ELSE path

RECURSIVE RStrip(_, _)
RStrip(path, pieces) ==
    IF path # <<>> /\ path[Len(path)] \in pieces
    THEN RStrip(SubSeq(path, 1, Len(path) - 1), pieces)
    ELSE path

Strip(path) == RStrip(LStrip(path, {" "}), {" "})

\* the pieces that contain the text "s3." and the text "blob.core.windows.net"
S3DotPieces == {"s3.", ".s3.amazonaws.com"}
BlobHostPieces == {".blob.core.windows.net"}

ParseError == [ok |-> FALSE]

\* ABFSPathParser
ABFSPathParser_can_parse(path) ==
    StartsWith(path, Scheme("abfs:")) \/ StartsWith(path, Scheme("abfss:"))

ABFSPathParser_parse(path0) ==
    LET path == IF ABFSPathParser_can_parse(path0) THEN Drop(path0, 3) ELSE path0
        at == Find(path, {"@"})
        filesystem == SubSeq(path, 1, at - 1)
        rest == Drop(path, at)
        account_and_path == SelectSeq(rest, LAMBDA piece : piece # ".dfs.core.windows.net")
        slash == Find(account_and_path, {"/"})
    IN  IF at = 0 THEN ParseError                  \* missing @
        ELSE IF ~Contains(rest, {".dfs.core.windows.net"}) THEN ParseError
        ELSE [ ok |-> TRUE,
               account_name |-> IF slash = 0 THEN account_and_path
                                ELSE SubSeq(account_and_path, 1, slash - 1),
               filesystem |-> filesystem,
               path |-> IF slash = 0 THEN <<>>
                        ELSE LStrip(Drop(account_and_path, slash), {"/"}),
               full_path |-> path,
               \* tested on the path whose scheme was cut off above
               protocol |-> IF StartsWith(path, Scheme("abfs:")) THEN "abfs" ELSE "abfss" ]

\* BlobPathParser
BlobPathParser_can_parse(path) ==
    \/ Contains(path, BlobHostPieces)
    \/ /\ ~StartsWith(path, Scheme("abfs:"))
       /\ ~StartsWith(path, Scheme("abfss:"))
       /\ Contains(path, {"/"})

\* re.match(r'https?://([^/]+)\.blob\.core\.windows\.net/([^/]+)(?:/(.*))?', path):
\* the index of the host piece the pattern matches at, 0 when it does not match
BlobUrlMatch(path) ==
    IF /\ StartsWith(path, Scheme("https:"))
       /\ \E j \in 5..(Len(path) - 2) :
             /\ path[j] \in BlobHostPieces
             /\ ~Contains(SubSeq(path, 4, j - 1), {"/"})
             /\ path[j + 1] = "/"
             /\ path[j + 2] # "/"
    THEN CHOOSE j \in 5..(Len(path) - 2) :
             /\ path[j] \in BlobHostPieces
             /\ ~Contains(SubSeq(path, 4, j - 1), {"/"})
             /\ path[j + 1] = "/"
             /\ path[j + 2] # "/"
    ELSE 0

BlobPathParser_parse(path) ==
    LET j == BlobUrlMatch(path)
        after == Drop(path, j + 1)                       \* what follows the host's "/"
        end == Find(after, {"/"})
        s1 == Find(path, {"/"})                          \* path.split("/", 2)
        tail1 == Drop(path, s1)
        s2 == Find(tail1, {"/"})
    IN  IF Contains(path, BlobHostPieces) /\ j # 0
        THEN [ ok |-> TRUE,
               account_name |-> SubSeq(path, 4, j - 1),
               container |-> IF end = 0 THEN after ELSE SubSeq(after, 1, end - 1),
               path |-> IF end = 0 THEN <<>> ELSE Drop(after, end),
               full_path |-> path ]
        ELSE IF s1 # 0 /\ s2 # 0                          \* three parts
        THEN [ ok |-> TRUE,
               account_name |-> SubSeq(path, 1, s1 - 1),
               container |-> SubSeq(tail1, 1, s2 - 1),
               path |-> Drop(tail1, s2),
               full_path |-> path ]
        ELSE IF s1 # 0                                    \* two parts
        THEN [ ok |-> TRUE, account_name |-> <<>>,
               container |-> SubSeq(path, 1, s1 - 1),
               path |-> tail1, full_path |-> path ]
        ELSE [ ok |-> TRUE, account_name |-> <<>>,
               container |-> path, path |-> <<>>, full_path |-> path ]

\* bucket, file_path = path.split("/", 1), or the whole path when it has no "/"
BucketAndPath(path) ==
    LET slash == Find(path, {"/"})
    IN  [ ok |-> TRUE,
          bucket |-> IF slash = 0 THEN path ELSE SubSeq(path, 1, slash - 1),
          path |-> IF slash = 0 THEN <<>> ELSE Drop(path, slash),
          full_path |-> path ]

\* S3PathParser
S3PathParser_can_parse(path) ==
    \/ StartsWith(path, Scheme("s3:"))
    \/ Contains(LowerPath(path), S3DotPieces)
    \/ Contains(LowerPath(path), {".s3.amazonaws.com"})

\* re.match(r'https?://([^/]+)\.s3[^/]*\.amazonaws\.com(?:/(.*))?', path)
S3UrlMatch(path) ==
    IF /\ StartsWith(path, Scheme("https:"))
       /\ \E j \in 5..Len(path) :
             /\ path[j] = ".s3.amazonaws.com"
             /\ ~Contains(SubSeq(path, 4, j - 1), {"/"})
    THEN CHOOSE j \in 5..Len(path) :
             /\ path[j] = ".s3.amazonaws.com"
             /\ ~Contains(SubSeq(path, 4, j - 1), {"/"})
    ELSE 0

S3PathParser_parse(path) ==
    LET j == S3UrlMatch(path) IN
    IF StartsWith(path, Scheme("s3:")) THEN BucketAndPath(Drop(path, 3))
    ELSE IF j # 0
    THEN [ ok |-> TRUE,
           bucket |-> SubSeq(path, 4, j - 1),
           path |-> IF j < Len(path) /\ path[j + 1] = "/" THEN Drop(path, j + 1) ELSE <<>>,
           full_path |-> path ]
    ELSE ParseError                                      \* Invalid S3 path format

\* GCSPathParser
GCSPathParser_can_parse(path) ==
    \/ StartsWith(path, Scheme("gs:"))
    \/ Contains(LowerPath(path), {"storage.googleapis.com"})

\* re.match(r'https?://storage\.googleapis\.com/([^/]+)(?:/(.*))?', path)
GCSUrlMatch(path) ==
    /\ StartsWith(path, Scheme("https:") \o <<"storage.googleapis.com", "/">>)
    /\ Len(path) >= 6
    /\ path[6] # "/"

GCSPathParser_parse(path) ==
    IF StartsWith(path, Scheme("gs:")) THEN BucketAndPath(Drop(path, 3))
    ELSE IF GCSUrlMatch(path) THEN [BucketAndPath(Drop(path, 5)) EXCEPT !.full_path = path]
    ELSE ParseError                                      \* Invalid GCS path format

\* _register_default_parsers: the parsers in the order they are registered
Parsers == <<"ABFSPathParser", "S3PathParser", "GCSPathParser", "BlobPathParser">>

can_parse(parser, path) ==
    CASE parser = "ABFSPathParser" -> ABFSPathParser_can_parse(path)
      [] parser = "S3PathParser" -> S3PathParser_can_parse(path)
      [] parser = "GCSPathParser" -> GCSPathParser_can_parse(path)
      [] parser = "BlobPathParser" -> BlobPathParser_can_parse(path)

parse(parser, path) ==
    CASE parser = "ABFSPathParser" -> ABFSPathParser_parse(path)
      [] parser = "S3PathParser" -> S3PathParser_parse(path)
      [] parser = "GCSPathParser" -> GCSPathParser_parse(path)
      [] parser = "BlobPathParser" -> BlobPathParser_parse(path)

get_storage_type(parser) ==
    CASE parser = "ABFSPathParser" -> "azure_datalake"
      [] parser = "S3PathParser" -> "aws_s3"
      [] parser = "GCSPathParser" -> "gcs"
      [] parser = "BlobPathParser" -> "azure_blob"

\* The locators resolved: optional leading blank, optional scheme, optional
\* "x@", a host, then up to MaxSegments "/x" segments.
Schemes == {"", "abfs:", "abfss:", "s3:", "gs:", "https:"}

Hosts ==
    { <<>>, <<"x">>,
      <<"x", ".dfs.core.windows.net">>, <<"x", ".blob.core.windows.net">>,
      <<"x", ".s3.amazonaws.com">>, <<"s3.", "x">>,
      <<"storage.googleapis.com">>, <<"STORAGE.GOOGLEAPIS.COM">> }

RECURSIVE Segments(_)
Segments(n) == IF n = 0 THEN <<>> ELSE <<"/", "x">> \o Segments(n - 1)

Locator(blank, scheme, user, host, n) ==
    (IF blank THEN <<" ">> ELSE <<>>)
    \o (IF scheme = "" THEN <<>> ELSE Scheme(scheme))
    \o (IF user THEN <<"x", "@">> ELSE <<>>)
    \o host \o Segments(n)

Locators ==
    { Locator(blank, scheme, user, host, n) :
        blank \in BOOLEAN, scheme \in Schemes, user \in BOOLEAN,
        host \in Hosts, n \in 0..MaxSegments }

\* PathParserRegistry.parse(path), one step per statement group: the entry checks,
\* then one turn of the loop over the parsers.
ParseCall(path) ==
    [ fn |-> "PathParserRegistry.parse", arg |-> path, pc |-> "entry",
      path |-> path, i |-> 0, ret |-> ParseError, error |-> "" ]

\* except Exception: a parser that raised while parsing is logged and passed over
ParseFailedRaises(c) == [c EXCEPT !.pc = "raised", !.error = "Failed to parse"]

ParseFailed(c) == [c EXCEPT !.i = @ + 1]

RegistryEnter ==
    /\ call.fn = "PathParserRegistry.parse"
    /\ call.pc = "entry"
    /\ call' = IF call.path = <<>> \/ Strip(call.path) = <<>>
               THEN [call EXCEPT !.pc = "raised", !.error = "Path cannot be empty"]
               ELSE [call EXCEPT !.pc = "loop", !.path = Strip(call.path), !.i = 1]
    /\ UNCHANGED <<config, blobs, catalog, clock, budget, scan, req, edits>>

TryParser ==
    /\ call.fn = "PathParserRegistry.parse"
    /\ call.pc = "loop"
    /\ call' =
         IF call.i > Len(Parsers)
         THEN [call EXCEPT !.pc = "raised", !.error = "No parser found for path format"]
         ELSE LET parser == Parsers[call.i]
                  parsed_data == parse(parser, call.path)
              IN  IF ~can_parse(parser, call.path) THEN [call EXCEPT !.i = @ + 1]
                  ELSE IF parsed_data.ok
                  THEN [call EXCEPT !.pc = "returned",
                                    !.ret = [ ok |-> TRUE,
                                              storage_type |-> get_storage_type(parser),
                                              original_path |-> call.path,
                                              parsed_data |-> parsed_data ]]
                  ELSE ParseFailed(call)
    /\ UNCHANGED <<config, blobs, catalog, clock, budget, scan, req, edits>>

(***************************************************************************)
(* The fingerprint of a blob, character by character: the composite        *)
(* string of the scan and its digest.  Text is a sequence of characters;   *)
(* encoding it as UTF-8 keeps different texts different.                   *)
(***************************************************************************)
DecimalDigits == <<"0", "1", "2", "3", "4", "5", "6", "7", "8", "9">>

\* str(n) of a natural number
RECURSIVE Str(_)
Str(n) == IF n < 10 THEN <<DecimalDigits[n + 1]>>
          ELSE Str(n \div 10) \o <<DecimalDigits[(n % 10) + 1]>>

\* datetime.isoformat(): digits and the punctuation of a timestamp
isoformat(last_modified) == <<"T">> \o Str(last_modified)

\* etag.strip('"')
strip_quotes(etag) == RStrip(LStrip(etag, {"\""}), {"\""})

\* The composite string without its separators
composite_string_unseparated(etag, file_size, last_modified) ==
    etag \o Str(file_size)
         \o (IF last_modified # Null THEN isoformat(last_modified) ELSE <<>>)

\* f"{etag}_{file_size}_{last_modified.isoformat() if last_modified else ''}"
composite_string(etag, file_size, last_modified) ==
    etag \o <<"_">> \o Str(file_size) \o <<"_">>
         \o (IF last_modified # Null THEN isoformat(last_modified) ELSE <<>>)

\* The fingerprint the scan takes of what list_blobs reported for a blob
Fingerprint(blob_info) ==
    LET file_size == blob_info.size
        etag == strip_quotes(blob_info.etag)
        last_modified == blob_info.last_modified
    IN  generate_file_hash(composite_string(etag, file_size, last_modified))

\* What a backend may report: an etag of up to MaxEtagLen characters, a size, and
\* a modification time or none.
EtagChars == {"\"", "1", "_"}

RECURSIVE TextsUpTo(_, _)
TextsUpTo(chars, n) ==
    IF n = 0 THEN {<<>>}
    ELSE LET shorter == TextsUpTo(chars, n - 1)
         IN  shorter \cup { Append(t, c) : t \in shorter, c \in chars }

ReportedSizes == {1, 11}

ReportedTimes == {Null, 1, 2}

BlobInfos ==
    [ etag : TextsUpTo(EtagChars, MaxEtagLen), size : ReportedSizes, last_modified : ReportedTimes ]

\* The scan fingerprints two reports one after the other.
FingerprintCall(first, second) ==
    [ fn |-> "Fingerprint", arg |-> <<first, second>>, ret |-> <<>> ]

TakeFingerprint ==
    /\ call.fn = "Fingerprint"
    /\ Len(call.ret) < Len(call.arg)
    /\ call' = [call EXCEPT !.ret = Append(@, Fingerprint(call.arg[Len(@) + 1]))]
    /\ UNCHANGED <<config, blobs, catalog, clock, budget, scan, req, edits>>

(***************************************************************************)
(* The schema hash, over JSON text.  A dict is the sequence of its         *)
(* <<key, value>> items in insertion order, a list the sequence of its     *)
(* elements; json.dumps writes the text piece by piece.                    *)
(***************************************************************************)
JsonStr(s) == [kind |-> "str", s |-> s]
JsonInt(n) == [kind |-> "int", n |-> n]
JsonList(elements) == [kind |-> "list", items |-> elements]
JsonDict(items) == [kind |-> "dict", items |-> items]

\* The keys that occur, as sorted() orders them
SortedKeys == <<"columns", "name", "num_columns", "type">>

\* The items of a dict as written without sort_keys: in insertion order
ItemsAsInserted(items) == items

\* The items of a dict as sort_keys=True writes them: ordered by key
ItemsByKey(items) ==
    LET present == SelectSeq(SortedKeys, LAMBDA k : \E i \in 1..Len(items) : items[i][1] = k)
    IN  [ n \in 1..Len(present) |->
            items[CHOOSE i \in 1..Len(items) : items[i][1] = present[n]] ]

\* ", ".join(texts)
RECURSIVE Join(_)
Join(texts) ==
    IF texts = <<>> THEN <<>>
    ELSE IF Len(texts) = 1 THEN texts[1]
    ELSE texts[1] \o <<", ">> \o Join(Tail(texts))

\* json.dumps(value, sort_keys=True)
RECURSIVE json_dumps(_)
json_dumps(value) ==
    CASE value.kind = "str" -> <<"\"", value.s, "\"">>
      [] value.kind = "int" -> Str(value.n)
      [] value.kind = "list" ->
            <<"[">> \o Join([i \in 1..Len(value.items) |-> json_dumps(value.items[i])]) \o <<"]">>
      [] value.kind = "dict" ->
            LET items == ItemsByKey(value.items)
            IN  <<"{">>
                \o Join([i \in 1..Len(items) |->
                            <<"\"", items[i][1], "\"", ": ">> \o json_dumps(items[i][2])])
                \o <<"}">>

\* generate_schema_hash(schema_json), on the text
SchemaHash(schema_json) == Shake128(json_dumps(schema_json))

\* dict[key]
Get(dict, key) == dict.items[CHOOSE i \in 1..Len(dict.items) : dict.items[i][1] = key][2]

\* A schema descriptor as the extractors build it, {"columns": [...], "num_columns":
\* len(columns)}, each column a dict with "name" and "type"; the flags say in which
\* order the keys went in.
ColumnNames == {"a", "b"}

ColumnTypes == {"int64", "string"}

Columns == [name : ColumnNames, type : ColumnTypes]

ColumnDict(column, name_first) ==
    LET name == <<"name", JsonStr(column.name)>>
        type == <<"type", JsonStr(column.type)>>
    IN  JsonDict(IF name_first THEN <<name, type>> ELSE <<type, name>>)

SchemaDescriptor(columns, columns_first, name_first) ==
    LET cols == <<"columns", JsonList([i \in 1..Len(columns) |-> ColumnDict(columns[i], name_first)])>>
        num == <<"num_columns", JsonInt(Len(columns))>>
    IN  JsonDict(IF columns_first THEN <<cols, num>> ELSE <<num, cols>>)

SchemaDescriptors ==
    { SchemaDescriptor(columns, columns_first, name_first) :
        columns \in TextsUpTo(Columns, MaxColumns),
        columns_first \in BOOLEAN, name_first \in BOOLEAN }

\* The columns of a descriptor, in list order, without the order of their keys
ColumnsOf(descriptor) ==
    LET list == Get(descriptor, "columns").items
    IN  [ i \in 1..Len(list) |->
            [name |-> Get(list[i], "name").s, type |-> Get(list[i], "type").s] ]

\* Two descriptors are hashed one after the other.
SchemaHashCall(first, second) ==
    [ fn |-> "generate_schema_hash", arg |-> <<first, second>>, ret |-> <<>> ]

TakeSchemaHash ==
    /\ call.fn = "generate_schema_hash"
    /\ Len(call.ret) < Len(call.arg)
    /\ call' = [call EXCEPT !.ret = Append(@, SchemaHash(call.arg[Len(@) + 1]))]
    /\ UNCHANGED <<config, blobs, catalog, clock, budget, scan, req, edits>>

(***************************************************************************)
(* Column type inference.  A list of values is kept as runs, <<value,       *)
(* how many times in a row>>, so that lists longer than the sampling cap    *)
(* stay small.                                                             *)
(***************************************************************************)
\* The values that occur in a column, and what the conversions make of them
SampleValues == {"7", "1", "1.5", "yes", "2024-01-02", "x", " ", ""}

\* v and v.strip()
NotBlank(value) == value \notin {" ", ""}

\* value.lower() in ['true', 'false', 'yes', 'no', '1', '0']
bool_like(value) == value \in {"yes", "1"}

\* int(value) does not raise
int_parses(value) == value \in {"7", "1"}

\* float(value) does not raise
float_parses(value) == value \in {"7", "1", "1.5"}

\* '/' or '-' in value, and it splits into three parts that int() accepts
date_like(value) == value = "2024-01-02"

\* len(values)
RECURSIVE Size(_)
Size(runs) == IF runs = <<>> THEN 0 ELSE runs[1][2] + Size(Tail(runs))

\* values[:n]
RECURSIVE Take(_, _)
Take(runs, n) ==
    IF runs = <<>> \/ n = 0 THEN <<>>
    ELSE IF runs[1][2] >= n THEN << <<runs[1][1], n>> >>
    ELSE <<runs[1]>> \o Take(Tail(runs), n - runs[1][2])

\* how many of the values are among the accepted ones
Count(runs, accepted) == Size(SelectSeq(runs, LAMBDA run : run[1] \in accepted))

\* count >= total * 0.8; in floating point this is 5 * count >= 4 * total for every
\* total below 400
AtLeast80(count, total) == 5 * count >= 4 * total

infer_column_type(values) ==
    LET non_empty == SelectSeq(values, LAMBDA run : NotBlank(run[1]))
        sampled == Take(non_empty, SampleCap)
        int_count == Count(sampled, {v \in SampleValues : int_parses(v)})
        float_count == Count(sampled, {v \in SampleValues : float_parses(v)})
        bool_count == Count(sampled, {v \in SampleValues : bool_like(v)})
        date_count == Count(sampled, {v \in SampleValues : date_like(v)})
        total == Size(non_empty)
    IN  IF values = <<>> THEN "string"
        ELSE IF non_empty = <<>> THEN "string"
        ELSE IF AtLeast80(int_count, total) THEN "int64"
        ELSE IF AtLeast80(float_count, total) THEN "double"
        ELSE IF AtLeast80(bool_count, total) THEN "bool"
        ELSE IF AtLeast80(date_count, total) THEN "date"
        ELSE "string"

\* The lists of values inferred from: up to MaxRuns runs
RunLengths == {1, 3, 4, 26, 100}

ValueLists == TextsUpTo(SampleValues \X RunLengths, MaxRuns)

InferCall(values) == [ fn |-> "infer_column_type", arg |-> values, pc |-> "entry", ret |-> "" ]

InferColumnType ==
    /\ call.fn = "infer_column_type"
    /\ call.pc = "entry"
    /\ call' = [call EXCEPT !.pc = "returned", !.ret = infer_column_type(call.arg)]
    /\ UNCHANGED <<config, blobs, catalog, clock, budget, scan, req, edits>>

(***************************************************************************)
(* PII detection on a column (airflow/utils/azure_dlp_client.py) and what  *)
(* the schema extractors keep of it.                                       *)
(***************************************************************************)
\* pii_patterns: keyword -> PII types
pii_patterns ==
    [ pattern \in
        { "email", "e-mail", "mail", "phone", "telephone", "mobile", "cell", "ssn",
          "social", "social_security", "credit_card", "creditcard", "card_number",
          "cardnumber", "cc", "passport", "passport_number", "driver", "license", "dl",
          "bank_account", "account_number", "accountnumber", "address", "street",
          "city", "zip", "postal" } |->
        CASE pattern \in {"email", "e-mail", "mail"} -> {"Email"}
          [] pattern \in {"phone", "telephone", "mobile", "cell"} -> {"PhoneNumber"}
          [] pattern \in {"ssn", "social", "social_security"} -> {"SSN"}
          [] pattern \in {"credit_card", "creditcard", "card_number", "cardnumber", "cc"}
                -> {"CreditCardNumber"}
          [] pattern \in {"passport", "passport_number"} -> {"PassportNumber"}
          [] pattern \in {"driver", "license", "dl"} -> {"DriverLicense"}
          [] pattern \in {"bank_account", "account_number", "accountnumber"} -> {"BankAccount"}
          [] OTHER -> {"Address"} ]

\* The column names that occur, and column_name.lower().strip() of each
ColumnHeaders ==
    { "x", "full_name", "user_email", "User_Email ", "email_address", "account_number",
      "phone", "city" }

column_lower(column_name) == IF column_name = "User_Email " THEN "user_email" ELSE column_name

\* The keywords that are substrings of a lower-cased name
PatternsIn(lowered) ==
    CASE lowered = "user_email" -> {"email", "mail"}
      [] lowered = "email_address" -> {"email", "mail", "address"}
      [] lowered = "account_number" -> {"account_number", "cc"}
      [] lowered = "phone" -> {"phone"}
      [] lowered = "city" -> {"city"}
      [] OTHER -> {}

\* for pattern, types in pii_patterns.items(): if pattern in column_lower: extend
KeywordTypes(column_name) ==
    UNION { pii_patterns[pattern] : pattern \in PatternsIn(column_lower(column_name)) }

\* What the Azure AI Language service does when asked: not configured, no entity
\* found, an error (caught in detect_pii_in_text), or entities of some categories.
DlpCategories == {"Person", "Email"}

DlpBehaviours ==
    { [configured |-> FALSE, answer |-> "none", categories |-> {}],
      [configured |-> TRUE, answer |-> "none", categories |-> {}],
      [configured |-> TRUE, answer |-> "error", categories |-> {}] }
    \cup { [configured |-> TRUE, answer |-> "entities", categories |-> found] :
              found \in (SUBSET DlpCategories) \ {{}} }

NoPii == [pii_detected |-> FALSE, pii_types |-> {}]

\* AzureDLPClient.detect_pii_in_column_name
detect_pii_in_column_name(dlp, column_name) ==
    IF dlp.answer = "entities"
    THEN [pii_detected |-> TRUE, pii_types |-> dlp.categories]
    ELSE NoPii

\* azure_dlp_client.detect_pii_in_column
detect_pii_in_column(dlp, column_name) ==
    LET result == detect_pii_in_column_name(dlp, column_name)
        pii_types == KeywordTypes(column_name)
    IN  IF dlp.configured /\ result.pii_detected THEN result
        ELSE [pii_detected |-> pii_types # {}, pii_types |-> pii_types]

\* metadata_extractor.detect_pii_in_column when the import of the client failed
detect_pii_in_column_fallback(column_name) == NoPii

\* column_data of extract_csv_schema: name, type, and the PII finding
ColumnData(header, inferred_type, AZURE_DLP_AVAILABLE, pii_result) ==
    IF AZURE_DLP_AVAILABLE /\ pii_result.pii_detected
    THEN [ name |-> header, type |-> inferred_type, pii_detected |-> TRUE,
           pii_types |-> pii_result.pii_types, pii_types_none |-> FALSE ]
    ELSE [ name |-> header, type |-> inferred_type, pii_detected |-> FALSE,
           pii_types |-> {}, pii_types_none |-> TRUE ]

\* The sample values of a column: none, a number, a card number
SampleRows == { <<>>, << <<"7", 1>> >>, << <<"4111-1111-1111-1111", 1>> >>,
                << <<"7", 1>>, <<"4111-1111-1111-1111", 1>> >> }

\* One column of extract_csv_schema: the header, its sample values, whether the
\* import of the client succeeded, and what the service does.
ColumnCall(header, sample_values, imported, dlp) ==
    [ fn |-> "extract_csv_schema", header |-> header, sample_values |-> sample_values,
      AZURE_DLP_AVAILABLE |-> imported, dlp |-> dlp, pc |-> "entry",
      pii_result |-> NoPii, column_data |-> ColumnData(header, "string", FALSE, NoPii) ]

DetectPii ==
    /\ call.fn = "extract_csv_schema"
    /\ call.pc = "entry"
    /\ call' = [call EXCEPT
                  !.pc = "detected",
                  !.pii_result = IF call.AZURE_DLP_AVAILABLE
                                 THEN detect_pii_in_column(call.dlp, call.header)
                                 ELSE detect_pii_in_column_fallback(call.header)]
    /\ UNCHANGED <<config, blobs, catalog, clock, budget, scan, req, edits>>

BuildColumn ==
    /\ call.fn = "extract_csv_schema"
    /\ call.pc = "detected"
    /\ call' = [call EXCEPT
                  !.pc = "returned",
                  !.column_data =
                      ColumnData(call.header,
                                 IF call.sample_values # <<>>
                                 THEN infer_column_type(call.sample_values) ELSE "string",
                                 call.AZURE_DLP_AVAILABLE, call.pii_result)]
    /\ UNCHANGED <<config, blobs, catalog, clock, budget, scan, req, edits>>

(***************************************************************************)
(* The PII summary and the data classification of a record                 *)
(* (extract_file_metadata, after the schema is extracted).                 *)
(***************************************************************************)
\* sensitive_types without Email
sensitive_types_without_email ==
    { "CreditCardNumber", "SSN", "PassportNumber", "DriverLicense", "BankAccount", "PhoneNumber" }

sensitive_types ==
    { "CreditCardNumber", "SSN", "PassportNumber", "DriverLicense", "BankAccount",
      "Email", "PhoneNumber" }

\* The PII findings a column of a schema can carry: none, or the types the keyword
\* table or the service gave it
FoundTypes == {"Email", "SSN", "Address", "Person"}

SchemaColumns ==
    { ColumnData("x", "string", TRUE, NoPii) }
    \cup { ColumnData("x", "string", TRUE, [pii_detected |-> TRUE, pii_types |-> found]) :
              found \in (SUBSET FoundTypes) \ {{}} }

\* pii_summary and data_classification of a schema's columns
ClassifyColumns(columns) ==
    LET pii_columns == SelectSeq(columns, LAMBDA col : col.pii_detected)
        pii_types_set == UNION { pii_columns[i].pii_types : i \in 1..Len(pii_columns) }
        pii_count == Len(pii_columns)
        has_sensitive_pii == \E pii_type \in pii_types_set : pii_type \in sensitive_types
    IN  [ total_columns |-> Len(columns),
          pii_columns_count |-> pii_count,
          pii_types_found |-> pii_types_set,
          data_classification |->
              IF columns = <<>> THEN "Internal"          \* the default
              ELSE IF pii_count > 0
                   THEN IF has_sensitive_pii THEN "Confidential" ELSE "Restricted"
                   ELSE "Internal" ]

ClassifyCall(columns) ==
    [ fn |-> "extract_file_metadata", columns |-> columns, pc |-> "schema",
      ret |-> [ total_columns |-> Len(columns), pii_columns_count |-> 0,
                pii_types_found |-> {}, data_classification |-> "Internal" ] ]

Classify ==
    /\ call.fn = "extract_file_metadata"
    /\ call.pc = "schema"
    /\ call' = [call EXCEPT !.pc = "returned", !.ret = ClassifyColumns(call.columns)]
    /\ UNCHANGED <<config, blobs, catalog, clock, budget, scan, req, edits>>

(***************************************************************************)
(* Sampling: the bytes of an object a scan path reads.  A read is the      *)
(* range of the object it returns, (offset, length); the object is its     *)
(* size.                                                                   *)
(***************************************************************************)
Min(a, b) == IF a < b THEN a ELSE b
Max(a, b) == IF a > b THEN a ELSE b

\* b""
NoBytes == [offset |-> 0, length |-> 0]

\* download_blob(offset=..., length=...).readall() and
\* download_file(offset=..., length=...).readall(): the bytes of the range that exist
download(size, offset, length) ==
    [offset |-> Min(offset, size), length |-> Min(length, Max(0, size - offset))]

\* AzureBlobClient.get_blob_sample; except Exception: return b""
AzureBlobClient_get_blob_sample(size, max_bytes, ok) ==
    IF ok THEN download(size, 0, max_bytes) ELSE NoBytes

\* AzureBlobClient.get_blob_tail: offset = max(0, file_size - max_bytes),
\* length = min(max_bytes, file_size)
AzureBlobClient_get_blob_tail(size, max_bytes, ok) ==
    IF ok THEN download(size, Max(0, size - max_bytes), Min(max_bytes, size)) ELSE NoBytes

\* AzureDataLakeClient.get_file_sample
AzureDataLakeClient_get_file_sample(size, max_bytes, ok) ==
    IF ok THEN download(size, 0, max_bytes) ELSE NoBytes

\* The scheduled scan of a blob container
dag_file_sample(name, size, ok) ==
    IF FileExtension(name) = "parquet"
    THEN AzureBlobClient_get_blob_tail(size, TailBytes, ok)
    ELSE AzureBlobClient_get_blob_sample(size, DagHeadBytes, ok)

\* The manual trigger on a blob container
trigger_blob_file_sample(name, size, ok) ==
    IF FileExtension(name) = "parquet"
    THEN AzureBlobClient_get_blob_tail(size, TailBytes, ok)
    ELSE AzureBlobClient_get_blob_sample(size, ManualHeadBytes, ok)

\* The manual trigger on a data lake path
trigger_datalake_file_sample(name, size, ok) ==
    IF FileExtension(name) = "parquet"
    THEN AzureDataLakeClient_get_file_sample(size, TailBytes, ok)
    ELSE AzureDataLakeClient_get_file_sample(size, ManualHeadBytes, ok)

ScanRoutes == {"dag", "trigger_blob", "trigger_datalake"}

file_sample(route, name, size, ok) ==
    CASE route = "dag" -> dag_file_sample(name, size, ok)
      [] route = "trigger_blob" -> trigger_blob_file_sample(name, size, ok)
      [] route = "trigger_datalake" -> trigger_datalake_file_sample(name, size, ok)

ObjectNames == { <<"a", "csv">>, <<"b", "PARQUET">>, <<"b", "parquet">>, <<"c">>, <<"d", "json">> }

ObjectSizes ==
    { 0, 1, DagHeadBytes, DagHeadBytes + 1, ManualHeadBytes, ManualHeadBytes + 1,
      TailBytes, TailBytes + 1, 2 * TailBytes }

SampleCall(route, name, size, ok) ==
    [ fn |-> "file_sample", route |-> route, name |-> name, size |-> size, ok |-> ok,
      pc |-> "called", ret |-> NoBytes ]

\* try: file_sample = ... except Exception: (logged)
TakeSample ==
    /\ call.fn = "file_sample"
    /\ call.pc = "called"
    /\ call' = [call EXCEPT !.pc = "returned",
                            !.ret = file_sample(call.route, call.name, call.size, call.ok)]
    /\ UNCHANGED <<config, blobs, catalog, clock, budget, scan, req, edits>>

(***************************************************************************)
(* The data lake listing (AzureDataLakeClient.list_paths).  The backend    *)
(* holds a number of entries, the first of which may be directories; the   *)
(* call is the number of entries taken from the iterator so far.           *)
(***************************************************************************)
SafetyLimit == 10000

HeldEntries == { 0, 1, SafetyLimit - 1, SafetyLimit, SafetyLimit + 1, SafetyLimit + 2 }

ListPathsCall(held, directories) ==
    [ fn |-> "list_paths", held |-> held, directories |-> directories,
      count |-> 0,          \* len(path_items)
      warned |-> FALSE,     \* logger.warning(... hit_safety_limit:10000)
      pc |-> "iterating", ret |-> 0 ]

\* for path in path_list: path_items.append(path); count += 1;
\*     if count > 10000: logger.warning(...); break
ListPathsFetch ==
    /\ call.fn = "list_paths"
    /\ call.pc = "iterating"
    /\ call.count < call.held
    /\ call' = IF call.count + 1 > SafetyLimit
               THEN [call EXCEPT !.count = @ + 1, !.warned = TRUE, !.pc = "fetched"]
               ELSE [call EXCEPT !.count = @ + 1]
    /\ UNCHANGED <<config, blobs, catalog, clock, budget, scan, req, edits>>

\* the iterator is exhausted
ListPathsExhausted ==
    /\ call.fn = "list_paths"
    /\ call.pc = "iterating"
    /\ call.count = call.held
    /\ call' = [call EXCEPT !.pc = "fetched"]
    /\ UNCHANGED <<config, blobs, catalog, clock, budget, scan, req, edits>>

\* get_paths or the iterator raises: logger.error(...); raise
ListPathsRaise ==
    /\ call.fn = "list_paths"
    /\ call.pc = "iterating"
    /\ call' = [call EXCEPT !.pc = "raised", !.count = 0]
    /\ UNCHANGED <<config, blobs, catalog, clock, budget, scan, req, edits>>

\* for path_item in path_items: if path_item.is_directory: continue; paths.append(...)
\* return paths
ListPathsReturn ==
    /\ call.fn = "list_paths"
    /\ call.pc = "fetched"
    /\ call' = [call EXCEPT !.pc = "returned", !.ret = call.count - Min(call.directories, call.count)]
    /\ UNCHANGED <<config, blobs, catalog, clock, budget, scan, req, edits>>

(***************************************************************************)
(* The list-visible operation: GET /api/discovery?page=..&size=..          *)
(***************************************************************************)
MaxPageSize == 100
DefaultPageSize == 50

QueryPages == (0 - 3)..6
QuerySizes == { 0 - 1, 0, 1, 2, DefaultPageSize, MaxPageSize - 1, MaxPageSize, MaxPageSize + 1,
                10 * MaxPageSize }

GetDiscoveriesCall(page, size) ==
    [ fn |-> "get_discoveries", page |-> page, size |-> size, pc |-> "called",
      code |-> 0, query |-> [page |-> 0, size |-> 0, offset |-> 0] ]

\* The route on integer parameters: if page < 0: return ..., 400;
\* if size > 100: size = 100; if size < 1: size = 50
ValidateQuery ==
    /\ call.fn = "get_discoveries"
    /\ call.pc = "called"
    /\ call' = IF call.page < 0
               THEN [call EXCEPT !.pc = "answered", !.code = BadRequestStatus]
               ELSE LET capped == IF call.size > MaxPageSize THEN MaxPageSize ELSE call.size
                        size == IF capped < 1 THEN DefaultPageSize ELSE capped
                    IN  [call EXCEPT !.pc = "validated", !.query.page = call.page, !.query.size = size]
    /\ UNCHANGED <<config, blobs, catalog, clock, budget, scan, req, edits>>

\* DiscoveryService.get_discoveries: offset = page * size; if offset < 0: offset = 0;
\* ... LIMIT size OFFSET offset; the route answers 200, or 500 when the service raises
RunQuery ==
    /\ call.fn = "get_discoveries"
    /\ call.pc = "validated"
    /\ \E raised \in BOOLEAN :
          call' = IF raised
                  THEN [call EXCEPT !.pc = "answered", !.code = 500]
                  ELSE LET offset == call.query.page * call.query.size
                       IN  [call EXCEPT !.pc = "answered", !.code = 200,
                                        !.query.offset = IF offset < 0 THEN 0 ELSE offset]
    /\ UNCHANGED <<config, blobs, catalog, clock, budget, scan, req, edits>>

(***************************************************************************)
(* Specifications.                                                         *)
(***************************************************************************)
\* No utility function is being called.
NoCall == [fn |-> "none"]

InitWith(cfg, passes) ==
    /\ config = cfg
    /\ blobs = [path \in {cfg.layout[i].full_path : i \in 1..Len(cfg.layout)} |-> [ver |-> 1, hdr |-> 1]]
    /\ catalog = <<>>
    /\ clock = 1
    /\ budget = passes
    /\ scan = [p \in ScanProcs |-> IdleScan]
    /\ req = [r \in Requests |-> IdleReq]
    /\ edits = 0
    /\ call = NoCall

Passes(dag1, dag2, manual) ==
    [p \in ScanProcs |-> CASE p = "dag1" -> dag1 [] p = "dag2" -> dag2 [] OTHER -> manual]

\* The steps of a scheduled run, and of the manual-trigger thread
DagStep(p) ==
    \/ BeginPass(p)
    \/ OpenAccount(p)
    \/ FinishPass(p)
    \/ ListBlobs(p)
    \/ Examine(p)
    \/ Decide(p)
    \/ Write(p)

ManualStep ==
    \/ BeginPass(Manual)
    \/ OpenAccount(Manual)
    \/ FinishPass(Manual)
    \/ ListBlobs(Manual)
    \/ Examine(Manual)
    \/ ManualDecide(Manual)

\* One blob; the scheduled scan runs pass after pass, the manual trigger once, and the
\* blob may be rewritten in between.
Init == InitWith(SmallConfig, Passes(MaxPasses, 0, 1))

Next ==
    \/ DagStep("dag1")
    \/ ManualStep
    \/ \E path \in Paths : ModifyBlob(path)

Spec == Init /\ [][Next]_vars

\* The row a first, undisturbed pass of the scheduled scan over SmallConfig inserts.
FirstPassRow ==
    LET account == SmallConfig.accounts[1]
        blob_info == BlobInfo(SmallConfig.layout[1], [ver |-> 1, hdr |-> 1])
        head == SampleBytes(FALSE, DagHeadBytes, 1)
        s == [IdleScan EXCEPT !.ai = 1, !.ci = 1, !.fi = 1, !.batch = 1]
    IN  InsertRow(get_storage_location_json(account.name, account.containers[1], blob_info.full_path),
                  extract_file_metadata(blob_info, head, 1, FALSE),
                  DiscoveryInfo("dag1", s, account), account.folders[1], 1)

\* One blob, discovered by an earlier pass; the scheduled scan runs pass after pass
\* while approve / reject requests are served.
InitApproval ==
    /\ config = SmallConfig
    /\ blobs = [path \in {SmallConfig.layout[i].full_path : i \in 1..Len(SmallConfig.layout)}
                    |-> [ver |-> 1, hdr |-> 1]]
    /\ catalog = <<FirstPassRow>>
    /\ clock = 1
    /\ budget = Passes(MaxPasses - 1, 0, 0)
    /\ scan = [p \in ScanProcs |-> IdleScan]
    /\ req = [r \in Requests |-> IdleReq]
    /\ edits = 0
    /\ call = NoCall

NextApproval ==
    \/ DagStep("dag1")
    \/ \E r \in Requests : ReadForDecision(r)
    \/ \E r \in Requests : WriteDecision(r)

SpecApproval == InitApproval /\ [][NextApproval]_vars

\* Two accounts, four listings, three blobs: one scheduled pass and one manual pass.
InitWide == InitWith(WideConfig, Passes(1, 0, 1))

NextWide ==
    \/ DagStep("dag1")
    \/ ManualStep

SpecWide == InitWide /\ [][NextWide]_vars

\* The same layout, scanned by the scheduled scan pass after pass.
InitRescan == InitWith(WideConfig, Passes(MaxPasses, 0, 0))

NextRescan == DagStep("dag1")

SpecRescan == InitRescan /\ [][NextRescan]_vars

\* One blob; two scheduled runs and the manual trigger at the same time.
InitRace == InitWith(SmallConfig, Passes(1, 1, 1))

NextRace ==
    \/ \E p \in Runs : DagStep(p)
    \/ ManualStep

SpecRace == InitRace /\ [][NextRace]_vars


\* One call of a utility function, the scan and the approval service at rest.
InitUtility(c) ==
    /\ config = SmallConfig
    /\ blobs = [path \in {SmallConfig.layout[i].full_path : i \in 1..Len(SmallConfig.layout)}
                    |-> [ver |-> 1, hdr |-> 1]]
    /\ catalog = <<>>
    /\ clock = 1
    /\ budget = Passes(0, 0, 0)
    /\ scan = [p \in ScanProcs |-> IdleScan]
    /\ req = [r \in Requests |-> IdleReq]
    /\ edits = 0
    /\ call = c

\* Resolution of one locator.
InitResolve == \E path \in Locators : InitUtility(ParseCall(path))

NextResolve ==
    \/ RegistryEnter
    \/ TryParser

SpecResolve == InitResolve /\ [][NextResolve]_vars

\* Two reports of blob metadata, fingerprinted.
InitFingerprint == \E first \in BlobInfos, second \in BlobInfos : InitUtility(FingerprintCall(first, second))

NextFingerprint == TakeFingerprint

SpecFingerprint == InitFingerprint /\ [][NextFingerprint]_vars

\* Two schema descriptors, hashed.
InitSchemaHash ==
    \E first \in SchemaDescriptors, second \in SchemaDescriptors :
        InitUtility(SchemaHashCall(first, second))

NextSchemaHash == TakeSchemaHash

SpecSchemaHash == InitSchemaHash /\ [][NextSchemaHash]_vars

\* The type of one column is inferred.
InitInfer == \E values \in ValueLists : InitUtility(InferCall(values))

NextInfer == InferColumnType

SpecInfer == InitInfer /\ [][NextInfer]_vars

\* One column of a CSV schema is built.
InitColumn ==
    \E header \in ColumnHeaders, sample_values \in SampleRows,
       imported \in BOOLEAN, dlp \in DlpBehaviours :
        InitUtility(ColumnCall(header, sample_values, imported, dlp))

NextColumn ==
    \/ DetectPii
    \/ BuildColumn

SpecColumn == InitColumn /\ [][NextColumn]_vars

\* The columns of one record's schema are summarized and classified.
InitClassify == \E columns \in TextsUpTo(SchemaColumns, MaxColumns) : InitUtility(ClassifyCall(columns))

NextClassify == Classify

SpecClassify == InitClassify /\ [][NextClassify]_vars

\* The sample of one object on one scan path.
InitSample ==
    \E route \in ScanRoutes, name \in ObjectNames, size \in ObjectSizes, ok \in BOOLEAN :
        InitUtility(SampleCall(route, name, size, ok))

NextSample == TakeSample

SpecSample == InitSample /\ [][NextSample]_vars

\* One call of the data lake listing.
InitListPaths ==
    \E held \in HeldEntries, directories \in {0, 1} :
        /\ directories <= held
        /\ InitUtility(ListPathsCall(held, directories))

NextListPaths ==
    \/ ListPathsFetch
    \/ ListPathsExhausted
    \/ ListPathsRaise
    \/ ListPathsReturn

SpecListPaths == InitListPaths /\ [][NextListPaths]_vars

\* One request to the list-visible operation.
InitGetDiscoveries ==
    \E page \in QueryPages, size \in QuerySizes : InitUtility(GetDiscoveriesCall(page, size))

NextGetDiscoveries ==
    \/ ValidateQuery
    \/ RunQuery

SpecGetDiscoveries == InitGetDiscoveries /\ [][NextGetDiscoveries]_vars

(***************************************************************************)
(* Properties.                                                             *)
(***************************************************************************)
Rows == 1..Len(catalog)

\* The approval history of a row
History(row) == row.approval_workflow.history

\* The content the scan computed now is the content the row holds: same etag-derived
\* storage metadata, same size and last_modified, same sample digest, same schema.
SameContent(row, metadata) ==
    /\ row.storage_metadata = metadata.storage_metadata
    /\ row.file_metadata.size_bytes = metadata.file_metadata.size_bytes
    /\ row.file_metadata.last_modified = metadata.file_metadata.last_modified
    /\ row.file_metadata.hash_algorithm = metadata.file_metadata.hash_algorithm
    /\ row.file_metadata.hash_value = metadata.file_metadata.hash_value
    /\ row.schema_json = metadata.schema_json
    /\ row.schema_hash = metadata.schema_hash

\* C1: in every reachable state of the table, at most one row exists for any
\* (storage type, storage identifier, storage path), also when two scheduled runs and
\* the manual trigger interleave their existence checks and inserts on the same key.
DedupKeyUnique ==
    \A i, j \in Rows : KeyOf(catalog[i]) = KeyOf(catalog[j]) => i = j

\* C1 witness: one run has inserted the key while another run, whose existence check
\* found nothing, stands before its own INSERT of the same key.
DedupKeyRaced ==
    /\ Len(catalog) = 1
    /\ \E p, q \in Runs :
          /\ p # q
          /\ scan[p].log = "inserted"
          /\ scan[q].pc = "write"
          /\ scan[q].existing.id = 0

\* C2: a scheduled pass over an object whose row was inserted by an earlier pass and
\* whose etag, size, last_modified and sample are what that row records decides NoOp:
\* it never stands before a write of that row.
SecondPassIsNoOp ==
    \A p \in Runs :
        ~ ( /\ scan[p].pc = "write"
            /\ scan[p].existing.id # 0
            /\ catalog[scan[p].existing.id].last_checked_at = Null
            /\ SameContent(catalog[scan[p].existing.id], scan[p].meta) )

\* C3: whenever the decision step of a scan (scheduled or manual) runs with no prior
\* record for the key, the scan goes on to the INSERT, and a committed INSERT adds one
\* row with status pending, approval_status pending_review, is_visible and is_active true.
AbsentKeyIsInserted ==
    [][\A p \in ScanProcs :
        /\ ( scan[p].pc = "decide" /\ scan[p].existing.id = 0 /\ scan'[p] # scan[p] )
              => scan'[p].pc = "write"
        /\ ( scan[p].pc = "write" /\ scan[p].existing.id = 0 /\ scan'[p].found # scan[p].found )
              => /\ Len(catalog') = Len(catalog) + 1
                 /\ catalog'[Len(catalog')].status = "pending"
                 /\ catalog'[Len(catalog')].approval_status = "pending_review"
                 /\ catalog'[Len(catalog')].is_visible = TRUE
                 /\ catalog'[Len(catalog')].is_active = TRUE
      ]_vars

\* C4: when a prior record exists and the new file hash and the new schema hash both
\* equal the stored ones, the decision step is a NoOp: the scan does not go on to a
\* write and no row of the table changes (file_metadata, schema_json, schema_hash and
\* storage_metadata included).
EqualHashesIsNoOp ==
    [][\A p \in ScanProcs :
        ( /\ scan[p].pc = "decide"
          /\ scan[p].existing.id # 0
          /\ scan[p].existing.file_hash = scan[p].file_hash
          /\ scan[p].existing.schema_hash = scan[p].meta.schema_hash
          /\ scan'[p] # scan[p] )
        => /\ scan'[p].pc # "write"
           /\ catalog' = catalog
      ]_vars

\* C4 witness: a scheduled pass has skipped an object whose row, inserted by an earlier
\* pass, is still as inserted.
SkippedUnchanged ==
    \E p \in Runs :
        /\ scan[p].log = "skipping"
        /\ Len(catalog) = 1
        /\ catalog[1].last_checked_at = Null
        /\ catalog[1].discovery_info.batch < scan[p].batch

\* C5: when a prior record exists and the new file hash or the new schema hash differs
\* from the stored one, the decision step of a scan (scheduled or manual) goes on to the
\* UPDATE, and a committed UPDATE overwrites file_metadata, schema_json, schema_hash and
\* storage_metadata with the values just computed and refreshes last_checked_at and
\* updated_at.
ChangedHashIsUpdated ==
    [][\A p \in ScanProcs :
        /\ ( /\ scan[p].pc = "decide"
             /\ scan[p].existing.id # 0
             /\ \/ scan[p].existing.file_hash # scan[p].file_hash
                \/ scan[p].existing.schema_hash # scan[p].meta.schema_hash
             /\ scan'[p] # scan[p] )
              => scan'[p].pc = "write"
        /\ ( scan[p].pc = "write" /\ scan[p].existing.id # 0 /\ scan'[p].found # scan[p].found )
              => LET row == catalog'[scan[p].existing.id]
                 IN  /\ row.file_metadata = scan[p].meta.file_metadata
                     /\ row.schema_json = scan[p].meta.schema_json
                     /\ row.schema_hash = scan[p].meta.schema_hash
                     /\ row.storage_metadata = scan[p].meta.storage_metadata
                     /\ row.last_checked_at = clock
                     /\ row.updated_at = clock
      ]_vars

\* C6: a content update never changes status, approval_status or is_visible: whatever
\* the approval state of a row (pending, approved, rejected), the step that commits or
\* fails an UPDATE leaves these three columns of every row as they were.
UpdateKeepsApproval ==
    [][\A p \in Runs :
        ( scan[p].pc = "write" /\ scan[p].existing.id # 0 /\ scan'[p] # scan[p] )
        => /\ Len(catalog') = Len(catalog)
           /\ \A i \in Rows :
                /\ catalog'[i].status = catalog[i].status
                /\ catalog'[i].approval_status = catalog[i].approval_status
                /\ catalog'[i].is_visible = catalog[i].is_visible
      ]_vars

\* C6 witness: a row that was rejected has had its content updated by a later pass and
\* is still rejected and hidden.
RejectedThenUpdated ==
    \E i \in Rows, p \in Runs :
        /\ scan[p].log = "updated"
        /\ catalog[i].status = "rejected"
        /\ catalog[i].approval_status = "rejected"
        /\ catalog[i].is_visible = FALSE
        /\ catalog[i].last_checked_at # Null
        /\ History(catalog[i]) # <<>>
        /\ History(catalog[i])[Len(History(catalog[i]))].at < catalog[i].discovery_info.batch

\* C7: a failure while one object is processed never aborts the pass: when a pass
\* (scheduled or manual) is over, every account was entered, every (container, folder)
\* of every account whose client was built was listed, and the loop body was entered
\* for every object a listing returned.
ScanNeverAborts ==
    \A p \in ScanProcs :
        scan[p].pc = "done" =>
            /\ scan[p].tried = 1..Len(AZURE_STORAGE_ACCOUNTS)
            /\ \A a \in scan[p].opened :
                 \A c \in 1..Len(AZURE_STORAGE_ACCOUNTS[a].containers),
                    f \in 1..Len(AZURE_STORAGE_ACCOUNTS[a].folders) : <<a, c, f>> \in scan[p].listed
            /\ scan[p].returned \subseteq scan[p].attempted

\* C7 witness: a scheduled pass over an empty table is over, every object of the layout
\* was attempted, and none was written: each of them failed, the first ones included.
AllFailedAllAttempted ==
    /\ scan["dag1"].pc = "done"
    /\ Cardinality(scan["dag1"].attempted) = Len(BlobLayout)
    /\ Len(BlobLayout) > 1
    /\ scan["dag1"].found = 0
    /\ catalog = <<>>

\* C8: the write of one object is one transaction: a write that fails leaves the whole
\* table as it was, a write that commits changes the one row it updates or adds one row
\* and leaves every other row as it was, and the object is not taken up again in the
\* pass (the loop body is entered once per listed object).
WriteIsAtomic ==
    [][\A p \in Runs :
        /\ ( scan[p].pc = "write" /\ scan'[p] # scan[p] )
              => /\ scan'[p].found = scan[p].found => catalog' = catalog
                 /\ scan'[p].found # scan[p].found =>
                        /\ Len(catalog') = Len(catalog) + (IF scan[p].existing.id = 0 THEN 1 ELSE 0)
                        /\ \A i \in Rows : i # scan[p].existing.id => catalog'[i] = catalog[i]
                 /\ ~ ( /\ scan'[p].pc \in {"examine", "decide", "write"}
                        /\ Unit(scan'[p]) = Unit(scan[p])
                        /\ scan'[p].oi = scan[p].oi )
        /\ ( scan[p].pc = "examine" /\ scan'[p] # scan[p] )
              => (Unit(scan[p]) \o <<scan[p].listing[scan[p].oi].full_path>>) \notin scan[p].attempted
      ]_vars

\* C8 witness: in a pass that has committed the write of one object, the write of a
\* later object failed; every object has its row, and a row of an earlier pass is as it
\* was inserted.
FailedAfterCommitted ==
    \E p \in Runs :
        /\ scan[p].log = "error inserting"
        /\ scan[p].found >= 1
        /\ Len(catalog) = Len(BlobLayout)
        /\ \E i \in Rows : catalog[i].last_checked_at = Null /\ catalog[i].discovery_info.batch < scan[p].batch

\* C9: a successful approve of an existing row, whatever its approval state, sets
\* status to approved, leaves is_visible as it was, and makes the row's history the
\* history it had plus one entry with action "approved" at the end.
ApproveAppendsOne ==
    [][\A r \in Requests :
        ( req[r].pc = "fetched" /\ req[r].kind = "approve" /\ req'[r].code = 200 )
        => LET before == catalog[req[r].id]
               after == catalog'[req[r].id]
           IN  /\ after.status = "approved"
               /\ after.approval_status = "approved"
               /\ after.is_visible = before.is_visible
               /\ Len(History(after)) = Len(History(before)) + 1
               /\ SubSeq(History(after), 1, Len(History(before))) = History(before)
               /\ History(after)[Len(History(after))].action = "approved"
      ]_vars

\* C10: a successful reject of an existing row, whatever its approval state, sets
\* status to rejected and is_visible to false, and makes the row's history the history
\* it had plus one entry with action "rejected" at the end.
RejectAppendsOne ==
    [][\A r \in Requests :
        ( req[r].pc = "fetched" /\ req[r].kind = "reject" /\ req'[r].code = 200 )
        => LET before == catalog[req[r].id]
               after == catalog'[req[r].id]
           IN  /\ after.status = "rejected"
               /\ after.approval_status = "rejected"
               /\ after.is_visible = FALSE
               /\ Len(History(after)) = Len(History(before)) + 1
               /\ SubSeq(History(after), 1, Len(History(before))) = History(before)
               /\ History(after)[Len(History(after))].action = "rejected"
      ]_vars

\* C11: an approve or reject request naming an id that has no record is answered
\* 404 whenever the request was well-formed and the lookup ran, 404 is answered
\* in no other case (a malformed request gets 400, a failing database 500), and
\* serving such a request changes no record.
NotFoundIsDistinct ==
    [][ \A r \in Requests :
          ( req[r].pc = "idle" /\ req'[r].pc # "idle" )
          => LET q == req'[r]
                 absent == q.id > Len(catalog)
             IN  /\ ( absent /\ q.code # BadRequestStatus /\ q.exc # "OperationalError" )
                        => ( q.pc = "done" /\ q.code = 404 )
                 /\ q.code = 404 => absent
                 /\ absent => ( q.pc = "done" /\ catalog' = catalog ) ]_vars

\* C11 witness: a request for an id beyond the one record was answered 404.
NotFoundAnswered ==
    /\ Len(catalog) >= 1
    /\ \E r \in Requests :
          /\ req[r].pc = "done"
          /\ req[r].id > Len(catalog)
          /\ req[r].code = 404

\* The columns of a row whose values differ between two versions of it
Changed(before, after) == { c \in DOMAIN before : before[c] # after[c] }

\* C12 as stated: no column of an existing row is written both by the scan's UPDATE
\* and by approve / reject: a step that commits a decision changes no column of the
\* scan's SET clause, and a step that commits the scan's UPDATE changes no column
\* of the SET clause of approve or reject.
WritersDisjoint ==
    [][ /\ \A r \in Requests :
              ( req[r].pc = "fetched" /\ req'[r].pc = "done" )
              => \A i \in Rows : Changed(catalog[i], catalog'[i]) \cap UpdateColumns = {}
        /\ \A p \in ScanProcs :
              ( scan[p].pc = "write" /\ scan[p].existing.id # 0 /\ scan'[p] # scan[p] )
              => \A i \in Rows :
                    Changed(catalog[i], catalog'[i]) \cap (ApproveColumns \cup RejectColumns) = {}
      ]_vars

\* C12 amended: updated_at is the one column both write. A step that commits a
\* decision changes only columns of that decision's SET clause, none of them a
\* column of the scan's UPDATE other than updated_at; a step that commits the
\* scan's UPDATE changes only columns of its SET clause, none of them a column of
\* approve or reject other than updated_at.
WritersDisjointButUpdatedAt ==
    [][ /\ \A r \in Requests :
              ( req[r].pc = "fetched" /\ req'[r].pc = "done" )
              => \A i \in Rows :
                    LET ch == Changed(catalog[i], catalog'[i])
                    IN  /\ ch \subseteq (IF req[r].kind = "approve" THEN ApproveColumns ELSE RejectColumns)
                        /\ ch \cap (UpdateColumns \ {"updated_at"}) = {}
        /\ \A p \in ScanProcs :
              ( scan[p].pc = "write" /\ scan[p].existing.id # 0 /\ scan'[p] # scan[p] )
              => \A i \in Rows :
                    LET ch == Changed(catalog[i], catalog'[i])
                    IN  /\ ch \subseteq UpdateColumns
                        /\ ch \cap ((ApproveColumns \cup RejectColumns) \ {"updated_at"}) = {}
        /\ UpdateColumns \cap (ApproveColumns \cup RejectColumns) = {"updated_at"}
      ]_vars

\* C12 witness: one row has been written by both: its content was refreshed by a
\* later pass (last_checked_at set) and it was rejected (hidden, history of one).
WrittenByBoth ==
    \E i \in Rows :
        /\ catalog[i].last_checked_at # Null
        /\ catalog[i].status = "rejected"
        /\ ~catalog[i].is_visible
        /\ Len(History(catalog[i])) >= 1
        /\ catalog[i].updated_at # Null

\* The first parser, in registration order, that both claims the path and parses
\* it; 0 when there is none.
FirstSuccess(path) ==
    LET winners == { k \in 1..Len(Parsers) :
                        can_parse(Parsers[k], path) /\ parse(Parsers[k], path).ok }
    IN  IF winners = {} THEN 0
        ELSE CHOOSE k \in winners : \A m \in winners : k <= m

\* C13: resolution tries the parsers in registration order and returns the result
\* of the first one that claims the locator and parses it; a parser that claims it
\* but fails to parse is passed over; the call raises only when no parser both
\* claims and parses the locator.
ResolvesFirstSuccess ==
    call.fn = "PathParserRegistry.parse" =>
        LET path == Strip(call.arg)
            w == FirstSuccess(path)
        IN  /\ call.pc = "loop" => ( w = 0 \/ w >= call.i )
            /\ call.pc = "returned" =>
                  /\ w # 0
                  /\ call.i = w
                  /\ call.ret.storage_type = get_storage_type(Parsers[w])
                  /\ call.ret.parsed_data = parse(Parsers[w], path)
            /\ call.pc = "raised" => w = 0

\* C13 witness: a locator was resolved by a later parser after an earlier parser
\* had claimed it and failed to parse it.
SkippedThenResolved ==
    /\ call.fn = "PathParserRegistry.parse"
    /\ call.pc = "returned"
    /\ \E k \in 1..(call.i - 1) :
          can_parse(Parsers[k], call.path) /\ ~parse(Parsers[k], call.path).ok

\* C14: the blob parser never shadows a scheme parser: a resolved locator that
\* starts with abfs:// or abfss:// is resolved as azure_datalake, and a resolved
\* locator that the ABFS, S3 or GCS parser claims is not resolved as azure_blob.
SchemeNotShadowed ==
    ( call.fn = "PathParserRegistry.parse" /\ call.pc = "returned" ) =>
        /\ ABFSPathParser_can_parse(call.path) => call.ret.storage_type = "azure_datalake"
        /\ ( \E k \in 1..3 : can_parse(Parsers[k], call.path) )
              => call.ret.storage_type # "azure_blob"

\* C15 as stated: two reports that differ in etag, size or last_modified (raw etags
\* that differ only in surrounding quotes included) get different fingerprints.
FingerprintSeparatesReports ==
    ( call.fn = "Fingerprint" /\ Len(call.ret) = 2 ) =>
        ( call.arg[1] # call.arg[2] => call.ret[1] # call.ret[2] )

\* C15 amended: two reports get different fingerprints exactly when they differ in
\* size, in last_modified (present or absent), or in the etag with its surrounding
\* quote characters removed; etags that differ only in surrounding quotes do not
\* tell two reports apart.
FingerprintSeparatesStripped ==
    ( call.fn = "Fingerprint" /\ Len(call.ret) = 2 ) =>
        LET first == call.arg[1]
            second == call.arg[2]
        IN  ( call.ret[1] # call.ret[2] )
            <=> \/ strip_quotes(first.etag) # strip_quotes(second.etag)
                \/ first.size # second.size
                \/ first.last_modified # second.last_modified

\* C15 witness: two reports with one etag and one size, one of them without
\* last_modified, were fingerprinted differently.
AbsentTimeSeparated ==
    /\ call.fn = "Fingerprint"
    /\ Len(call.ret) = 2
    /\ call.arg[1].etag = call.arg[2].etag
    /\ call.arg[1].etag # <<>>
    /\ call.arg[1].size = call.arg[2].size
    /\ call.arg[1].last_modified = Null
    /\ call.arg[2].last_modified # Null
    /\ call.ret[1] # call.ret[2]

\* One sequence of columns is a rearrangement of the other.
SameColumnSet(first, second) ==
    /\ Len(first) = Len(second)
    /\ \A column \in Columns :
          Cardinality({i \in 1..Len(first) : first[i] = column})
            = Cardinality({i \in 1..Len(second) : second[i] = column})

\* C16 as stated: two descriptors with the same columns get the same schema hash
\* whatever the insertion order of their keys and whatever the order of the
\* columns in the list.
SchemaHashIgnoresOrder ==
    ( call.fn = "generate_schema_hash" /\ Len(call.ret) = 2 ) =>
        ( SameColumnSet(ColumnsOf(call.arg[1]), ColumnsOf(call.arg[2]))
            => call.ret[1] = call.ret[2] )

\* C16 amended: two descriptors get the same schema hash exactly when they list the
\* same columns in the same order; the insertion order of the keys, of the
\* descriptor and of each column, does not matter, the order of the columns does.
SchemaHashIgnoresKeyOrder ==
    ( call.fn = "generate_schema_hash" /\ Len(call.ret) = 2 ) =>
        ( call.ret[1] = call.ret[2] <=> ColumnsOf(call.arg[1]) = ColumnsOf(call.arg[2]) )

\* C16 witness: two descriptors built with their keys in different orders, at both
\* levels, and the same two columns in the same order, were hashed alike.
KeyOrdersHashedAlike ==
    /\ call.fn = "generate_schema_hash"
    /\ Len(call.ret) = 2
    /\ call.arg[1].items[1][1] # call.arg[2].items[1][1]
    /\ Len(ColumnsOf(call.arg[1])) = 2
    /\ ColumnsOf(call.arg[1]) = ColumnsOf(call.arg[2])
    /\ Get(call.arg[1], "columns").items[1].items[1][1]
         # Get(call.arg[2], "columns").items[1].items[1][1]
    /\ call.ret[1] = call.ret[2]

\* The type the 80% rule gives a list of non-empty values: the first of int64,
\* double, bool, date that at least 80% of the values qualify for, else string.
ByThreshold(values) ==
    LET n == Size(values)
    IN  IF AtLeast80(Count(values, {v \in SampleValues : int_parses(v)}), n) THEN "int64"
        ELSE IF AtLeast80(Count(values, {v \in SampleValues : float_parses(v)}), n) THEN "double"
        ELSE IF AtLeast80(Count(values, {v \in SampleValues : bool_like(v)}), n) THEN "bool"
        ELSE IF AtLeast80(Count(values, {v \in SampleValues : date_like(v)}), n) THEN "date"
        ELSE "string"

\* C17: the inferred type of a column with non-empty values is the one the 80%
\* rule gives in the precedence int, float, bool, date, string, k of n values
\* sufficing exactly when 5k >= 4n, whether the n values are taken to be all the
\* non-empty values or the first SampleCap of them.
InferenceByThreshold ==
    ( call.fn = "infer_column_type" /\ call.pc = "returned" ) =>
        LET non_empty == SelectSeq(call.arg, LAMBDA run : NotBlank(run[1]))
        IN  non_empty # <<>> =>
                \/ call.ret = ByThreshold(non_empty)
                \/ call.ret = ByThreshold(Take(non_empty, SampleCap))

\* A sample value shaped like a card number
CardNumberShaped(value) == value = "4111-1111-1111-1111"

\* C18: with the client imported and the service not configured, a column is
\* reported as PII by either of two signals: its name holds a keyword (then the
\* keyword's types are reported, sample values or not), or one of its sample
\* values is shaped like a card number (then CreditCardNumber is reported).
EitherSignalDetects ==
    ( /\ call.fn = "extract_csv_schema"
      /\ call.pc = "returned"
      /\ call.AZURE_DLP_AVAILABLE
      /\ ~call.dlp.configured ) =>
        /\ KeywordTypes(call.header) # {} =>
              /\ call.column_data.pii_detected
              /\ KeywordTypes(call.header) \subseteq call.column_data.pii_types
        /\ ( \E i \in 1..Len(call.sample_values) : CardNumberShaped(call.sample_values[i][1]) ) =>
              /\ call.column_data.pii_detected
              /\ "CreditCardNumber" \in call.column_data.pii_types

\* C19: whatever the service does (not configured, no entity, error, entities) and
\* whether or not the client could be imported, every PII type the keyword table
\* gives for the column's name is among the types reported for the column.
KeywordHitNeverSuppressed ==
    ( call.fn = "extract_csv_schema" /\ call.pc = "returned" ) =>
        KeywordTypes(call.header) \subseteq call.column_data.pii_types

\* The union of the PII types of a record's columns
TypesOfRecord(columns) == UNION { columns[i].pii_types : i \in 1..Len(columns) }

\* C20: the data classification of a record is decided by the union of the PII
\* types of its columns: Internal when no column has PII, Confidential when the
\* union holds a highly sensitive type (credit card, SSN, passport, driver's
\* license, bank account, email, phone), Restricted when there is PII and none of
\* it is highly sensitive.
ClassificationByUnion ==
    ( call.fn = "extract_file_metadata" /\ call.pc = "returned" ) =>
        LET types == TypesOfRecord(call.columns)
            highly_sensitive == { "CreditCardNumber", "SSN", "PassportNumber", "DriverLicense",
                                  "BankAccount", "Email", "PhoneNumber" }
            has_pii == \E i \in 1..Len(call.columns) : call.columns[i].pii_detected
        IN  /\ call.ret.pii_types_found = types
            /\ has_pii <=> types # {}
            /\ call.ret.data_classification =
                  ( IF types = {} THEN "Internal"
                    ELSE IF types \cap highly_sensitive # {} THEN "Confidential"
                    ELSE "Restricted" )

\* C20 witness: a record of two columns, one with PII and none of it highly
\* sensitive, was classified Restricted.
ClassifiedRestricted ==
    /\ call.fn = "extract_file_metadata"
    /\ call.pc = "returned"
    /\ Len(call.columns) = 2
    /\ \E i \in 1..2 : ~call.columns[i].pii_detected
    /\ TypesOfRecord(call.columns) = {"Address", "Person"}
    /\ call.ret.data_classification = "Restricted"

\* C21 as stated: on every scan path and both backends, the sample read for an object
\* whose extension is parquet is the last at most 8192 bytes of the object, and the
\* sample for any other object is the first at most 2048 bytes; no more than that is
\* read.
SampleIsTailOrHead ==
    ( call.fn = "file_sample" /\ call.pc = "returned" /\ call.ok ) =>
        IF FileExtension(call.name) = "parquet"
        THEN /\ call.ret.length = Min(TailBytes, call.size)
             /\ call.ret.offset + call.ret.length = call.size
        ELSE /\ call.ret.offset = 0
             /\ call.ret.length <= ManualHeadBytes
             /\ call.ret.length = call.size \/ call.ret.length \in {DagHeadBytes, ManualHeadBytes}

\* The pass did not get columns out of the object: no sample was read, or the sample
\* of a known format gave no columns.
ExtractionFailed(m) ==
    \/ m.file_metadata.hash_algorithm = "sha256_etag_composite"
    \/ /\ m.file_metadata.format \in {"parquet", "csv", "json"}
       /\ m.schema_json.columns = <<>>

\* C22 as stated: when sampling or schema extraction fails for an object, the scheduled
\* scan still reaches the decision with a record that carries a schema without columns
\* and the schema hash of that empty schema, one value for every pass in which the
\* failure recurs.
EmptySchemaOnFailure ==
    \A p \in Runs :
        ( scan[p].pc \in {"decide", "write"} /\ ExtractionFailed(scan[p].meta) ) =>
            LET m == scan[p].meta
            IN  /\ m.schema_json.columns = <<>>
                /\ m.schema_hash = generate_schema_hash(m.schema_json)
                /\ m.schema_hash \in { generate_schema_hash(EmptyDict),
                                      generate_schema_hash(SchemaDict(<<>>)) }

\* C29 as stated: in every catalog state each row's schema_hash is the schema hash of
\* the row's schema_json.
StoredHashIsHashOfStoredSchema ==
    \A i \in Rows : catalog[i].schema_hash = generate_schema_hash(catalog[i].schema_json)

\* C23 as stated: one call of the data lake listing takes no more than 10,000 entries
\* from the backend and returns no more than 10,000; when the backend holds more, the
\* listing is cut at 10,000 entries, the warning is logged and the call returns.
ListingCappedAtLimit ==
    ( call.fn = "list_paths" /\ call.pc \in {"fetched", "returned"} ) =>
        /\ call.count <= SafetyLimit
        /\ call.ret <= SafetyLimit
        /\ call.held > SafetyLimit => ( call.count = SafetyLimit /\ call.warned )
        /\ call.held <= SafetyLimit => ( call.count = call.held /\ ~call.warned )

\* C24 as stated: for every integer page and size the list-visible request is not
\* rejected, and the values the query is run with are the supplied ones clamped into
\* page >= 0 and 1 <= size <= 100.
PaginationClamped ==
    ( call.fn = "get_discoveries" /\ call.pc # "called" ) =>
        /\ call.code # BadRequestStatus
        /\ call.pc = "validated" =>
              /\ call.query.page >= 0
              /\ call.query.size >= 1
              /\ call.query.size <= MaxPageSize

\* C25 as stated: the manual-trigger scan makes the decision of the scheduled scan: for
\* every combination of prior record absent or present, file hash equal or different
\* and schema hash equal or different, its decision step goes on to the write (Insert
\* or UpdateContent) exactly when the scheduled scan's does, and skips the object
\* (NoOp) otherwise.
ManualDecidesAsScheduled ==
    [][ ( scan[Manual].pc = "decide" /\ scan'[Manual] # scan[Manual] ) =>
            LET s == scan[Manual]
            IN  IF should_update_or_insert(s.existing, s.file_hash, s.meta.schema_hash)
                THEN scan'[Manual].pc = "write"
                ELSE scan'[Manual] = NextBlob([s EXCEPT !.log = "skipping"])
      ]_vars

\* C26 as stated: the dedup state converges: a committed UPDATE of the scheduled scan
\* leaves the row with the (file hash, schema hash) pair the pass computed, the pair
\* the next pass will compare its own with.
UpdateStoresComputedPair ==
    [][ \A p \in Runs :
          ( scan[p].pc = "write" /\ scan[p].existing.id # 0 /\ scan'[p].found # scan[p].found )
          => LET row == catalog'[scan[p].existing.id]
             IN  /\ FileHashColumn(row) = scan[p].file_hash
                 /\ row.schema_hash = scan[p].meta.schema_hash
      ]_vars

\* The approve / reject requests on row i that were answered 200
Succeeded(i) == { r \in Requests : req[r].pc = "done" /\ req[r].code = 200 /\ req[r].id = i }

\* C27 as stated: under any interleaving of approve / reject calls on one record, every
\* successful call has its own entry in the record's history: the history is never
\* shorter than the number of calls answered 200, none of them lost or overwritten.
HistoryKeepsEveryCall ==
    \A i \in Rows : Len(History(catalog[i])) >= Cardinality(Succeeded(i))

\* C28: visibility is never restored once lost: a row whose is_visible is false keeps
\* it false through every step of approve, reject and the scan, so from then on the
\* row is not among the rows the visible listing selects and is not counted in the
\* summary statistics, whatever its status becomes.
VisibilityNeverRestored ==
    [][ \A i \in Rows :
          ~catalog[i].is_visible =>
              /\ i <= Len(catalog')
              /\ ~catalog'[i].is_visible
              /\ i \notin visible_rows(catalog')
              /\ get_summary_stats(catalog').total_discoveries
                    <= Cardinality({ j \in 1..Len(catalog') : catalog'[j].is_visible })
      ]_vars

\* C28 witness: a row that was rejected, then approved, then refreshed by a pass of the
\* scan: its status is approved, it is hidden, and the listing and the statistics
\* leave it out.
ApprovedButHidden ==
    \E i \in Rows :
        /\ catalog[i].status = "approved"
        /\ Len(History(catalog[i])) >= 2
        /\ History(catalog[i])[1].action = "rejected"
        /\ catalog[i].last_checked_at # Null
        /\ ~catalog[i].is_visible
        /\ i \notin visible_rows(catalog)
        /\ get_summary_stats(catalog).approved_count = 0

\* C30 as stated: the number of new discoveries a scheduled pass reports counts the
\* INSERTs the pass committed and nothing else: a write step raises the count by one
\* exactly when it commits an INSERT; a committed UPDATE, a skipped object and a failed
\* write leave it as it is.
ReportCountsInsertsOnly ==
    [][ \A p \in Runs :
          ( scan[p].pc \in {"decide", "write"} /\ scan'[p] # scan[p] ) =>
              LET inserted == /\ scan[p].pc = "write"
                              /\ scan[p].existing.id = 0
                              /\ Len(catalog') = Len(catalog) + 1
              IN  scan'[p].found = scan[p].found + (IF inserted THEN 1 ELSE 0)
      ]_vars

====
